---- MODULE Spec2Model ----
(***************************************************************************)
(* Muon file system: superblock, bitmaps, inode table, bmap, directories,  *)
(* path resolution, file I/O and the FileSystem facade, over a RamDisk.    *)
(*                                                                         *)
(* Conventions of the model                                                *)
(*  - A block is a function from cell index (0..BLOCK_SIZE-1) to a natural *)
(*    number.  A file byte is one cell, a u32 block pointer is the first   *)
(*    cell of a group of 4, a directory entry is DIR_ENTRY_SIZE cells      *)
(*    (inode_id, name).  Names are numbers; 0 is the all-zero name.        *)
(*  - The metadata regions are kept in typed form: the bitmaps as the set  *)
(*    of indices whose bit is 1, the inode table as a function of inode    *)
(*    id, block 0 as the 14 u32 words of the superblock struct.            *)
(*  - Option<u32> block pointers: 0 stands for None.                       *)
(*  - Every modelled function takes the world w (device + in-memory        *)
(*    superblock) and returns [w, err, ...]; err = "Ok" or the FsError     *)
(*    name; `?` is the early return of the callee's w and err.  "Panic"    *)
(*    is a Rust panic (slice index out of range, panic!, checked           *)
(*    arithmetic overflow); it unwinds through every caller, the device    *)
(*    writes made before it stay.                                          *)
(*  - assert!/assert_eq! are checks of the code on itself; a failed        *)
(*    assertion is recorded in w.af and the statements after it are still  *)
(*    applied.                                                             *)
(*  - w.oc: the build's overflow checks (debug: overflow panics, release:  *)
(*    it wraps).                                                           *)
(*  - The RamDisk never fails a read or write of an in-range block.        *)
(*  - The result of a call that the code binds to a local (let x = f()?)   *)
(*    is bound as the parameter of a local operator: After(x) == ... IN    *)
(*    After(f(..)).                                                        *)
(***************************************************************************)
EXTENDS Integers, Sequences, FiniteSets, TLC

(***************************************************************************)
(* Sizes.  The structure sizes are scaled down; the ratios the code        *)
(* computes from them are kept.                                            *)
(***************************************************************************)
BLOCK_SIZE == 8
INODE_SIZE == 2
DIR_ENTRY_SIZE == 2
PTR_SIZE == 4
NUM_DIRECT_PTRS == 2
NUM_ENTRY_PER_BLOCK == BLOCK_SIZE \div DIR_ENTRY_SIZE
PTRS_PER_BLOCK == BLOCK_SIZE \div PTR_SIZE
SUPERBLOCK_ID == 0
ROOT_INODE_ID == 1
MAGIC == 1297436494
\* Stands for u32::MAX, the value 0 - 1 wraps to in a release build, within
\* the range of 32-bit signed integers.
U32_MAX == 2147483647

\* Geometry handed to format.
NumBlocks == 11
NumInodes == 6

\* Names: DOT_NAME and DOTDOT_NAME, and the names callers use.
DOT_NAME == 1
DOTDOT_NAME == 2
NameA == DOTDOT_NAME + 1
NameB == DOTDOT_NAME + 2

Min(a, b) == IF a < b THEN a ELSE b

(***************************************************************************)
(* structs.rs                                                              *)
(***************************************************************************)
NoPath == [abs |-> FALSE, comps |-> <<>>]

InodeNew(ftype, mode, id) ==
    [ftype |-> ftype, mode |-> mode, id |-> id, blocks |-> 0, links_cnt |-> 0,
     size |-> 0, direct |-> [i \in 1..NUM_DIRECT_PTRS |-> 0], indirect |-> 0,
     path |-> NoPath]

InodeZERO == InodeNew("Regular", "None", 0)

\* An inode table slot that was zeroed by format and never written.
InodeBlank == InodeNew("Blank", "None", 0)

ZeroBlock == [c \in 0..(BLOCK_SIZE - 1) |-> 0]

(***************************************************************************)
(* superblock.rs                                                           *)
(***************************************************************************)
\* u32 addition a + b: whether it overflows, and the value it wraps to.
Overflows(a, b) == a > U32_MAX - b

wrapping_add(a, b) == IF Overflows(a, b) THEN a - (U32_MAX - b) - 1 ELSE a + b

\* SuperBlock::new that accepts a geometry whose data region is empty.
SuperBlockNew_empty_data(num_blocks, num_inodes) ==
    IF num_blocks = 0 \/ num_inodes = 0
    THEN [err |-> "InvalidSuperBlock", sb |-> << >>, ovf |-> FALSE]
    ELSE
      LET data_bitmap_start == SUPERBLOCK_ID + 1
          data_bitmap_blocks == wrapping_add(num_blocks, 7) \div 8
          inode_bitmap_start == data_bitmap_start + data_bitmap_blocks
          inode_bitmap_blocks == wrapping_add(num_inodes, 7) \div 8
          inode_table_start == inode_bitmap_start + inode_bitmap_blocks
          inodes_per_block == BLOCK_SIZE \div INODE_SIZE
          inode_table_blocks ==
            wrapping_add(num_inodes, inodes_per_block - 1) \div inodes_per_block
          data_start == inode_table_start + inode_table_blocks
          ovf == \/ Overflows(num_blocks, 7)
                 \/ Overflows(num_inodes, 7)
                 \/ Overflows(num_inodes, inodes_per_block - 1)
      IN IF num_blocks < data_start
         THEN [err |-> "InvalidSuperBlock", sb |-> << >>, ovf |-> ovf]
         ELSE [err |-> "Ok", ovf |-> ovf,
               sb |-> [magic |-> MAGIC, num_blocks |-> num_blocks,
                       block_size |-> BLOCK_SIZE,
                       free_blocks |-> num_blocks - data_start,
                       num_inodes |-> num_inodes, free_inodes |-> num_inodes,
                       root_inode |-> ROOT_INODE_ID,
                       data_bitmap_start |-> data_bitmap_start,
                       data_bitmap_blocks |-> data_bitmap_blocks,
                       inode_bitmap_start |-> inode_bitmap_start,
                       inode_bitmap_blocks |-> inode_bitmap_blocks,
                       inode_table_start |-> inode_table_start,
                       inode_table_blocks |-> inode_table_blocks,
                       data_start |-> data_start]]

\* SuperBlock::new.  ovf: one of its u32 additions overflows, where a build
\* with overflow checks panics; err and sb are what the wrapping build
\* returns.
SuperBlockNew(num_blocks, num_inodes) ==
    IF num_blocks = 0 \/ num_inodes = 0
    THEN [err |-> "InvalidSuperBlock", sb |-> << >>, ovf |-> FALSE]
    ELSE
      LET data_bitmap_start == SUPERBLOCK_ID + 1
          data_bitmap_blocks == wrapping_add(num_blocks, 7) \div 8
          inode_bitmap_start == data_bitmap_start + data_bitmap_blocks
          inode_bitmap_blocks == wrapping_add(num_inodes, 7) \div 8
          inode_table_start == inode_bitmap_start + inode_bitmap_blocks
          inodes_per_block == BLOCK_SIZE \div INODE_SIZE
          inode_table_blocks ==
            wrapping_add(num_inodes, inodes_per_block - 1) \div inodes_per_block
          data_start == inode_table_start + inode_table_blocks
          ovf == \/ Overflows(num_blocks, 7)
                 \/ Overflows(num_inodes, 7)
                 \/ Overflows(num_inodes, inodes_per_block - 1)
      IN IF num_blocks <= data_start
         THEN [err |-> "InvalidSuperBlock", sb |-> << >>, ovf |-> ovf]
         ELSE [err |-> "Ok", ovf |-> ovf,
               sb |-> [magic |-> MAGIC, num_blocks |-> num_blocks,
                       block_size |-> BLOCK_SIZE,
                       free_blocks |-> num_blocks - data_start,
                       num_inodes |-> num_inodes, free_inodes |-> num_inodes,
                       root_inode |-> ROOT_INODE_ID,
                       data_bitmap_start |-> data_bitmap_start,
                       data_bitmap_blocks |-> data_bitmap_blocks,
                       inode_bitmap_start |-> inode_bitmap_start,
                       inode_bitmap_blocks |-> inode_bitmap_blocks,
                       inode_table_start |-> inode_table_start,
                       inode_table_blocks |-> inode_table_blocks,
                       data_start |-> data_start]]

\* The superblock block holds the struct as its 14 u32 fields in declaration
\* order (repr(C)); the rest of the block is zero.
SuperBlockWords(sb) ==
    <<sb.magic, sb.num_blocks, sb.block_size, sb.free_blocks, sb.num_inodes,
      sb.free_inodes, sb.root_inode, sb.data_bitmap_start, sb.data_bitmap_blocks,
      sb.inode_bitmap_start, sb.inode_bitmap_blocks, sb.inode_table_start,
      sb.inode_table_blocks, sb.data_start>>

SuperBlockOfWords(ws) ==
    [magic |-> ws[1], num_blocks |-> ws[2], block_size |-> ws[3], free_blocks |-> ws[4],
     num_inodes |-> ws[5], free_inodes |-> ws[6], root_inode |-> ws[7],
     data_bitmap_start |-> ws[8], data_bitmap_blocks |-> ws[9],
     inode_bitmap_start |-> ws[10], inode_bitmap_blocks |-> ws[11],
     inode_table_start |-> ws[12], inode_table_blocks |-> ws[13], data_start |-> ws[14]]

\* device.write_block: w.log lists the writes of the call in the order the
\* code makes them, by the kind of block written (superblock, bitmap, inode
\* table, data) and the inode or data block id.
Logged(w, kind, id) == [w EXCEPT !.log = Append(@, [kind |-> kind, id |-> id])]

write_superblock(w) == Logged([w EXCEPT !.dev.sb = SuperBlockWords(w.sb)], "superblock", 0)

\* read_superblock that takes free_inodes from the free_blocks word.
read_superblock_shifted(dev) ==
    LET superblock == [SuperBlockOfWords(dev.sb) EXCEPT !.free_inodes = dev.sb[4]]
    IN IF superblock.magic # MAGIC THEN [err |-> "InvalidSuperBlock", sb |-> superblock]
       ELSE IF superblock.block_size # BLOCK_SIZE
       THEN [err |-> "InvalidSuperBlock", sb |-> superblock]
       ELSE [err |-> "Ok", sb |-> superblock]

read_superblock(dev) ==
    LET superblock == SuperBlockOfWords(dev.sb)
    IN IF superblock.magic # MAGIC THEN [err |-> "InvalidSuperBlock", sb |-> superblock]
       ELSE IF superblock.block_size # BLOCK_SIZE
       THEN [err |-> "InvalidSuperBlock", sb |-> superblock]
       ELSE [err |-> "Ok", sb |-> superblock]

(***************************************************************************)
(* bitmap.rs                                                               *)
(***************************************************************************)
RECURSIVE ScanFirstFit(_, _, _, _, _)
\* The three nested loops of set_first_fit_bit visit the item ids in
\* increasing order; cap is bitmap_blocks * BLOCK_SIZE * 8.
ScanFirstFit(bits, cap, total_items, value, i) ==
    IF i >= cap THEN [err |-> "NotFound", id |-> 0, bits |-> bits]
    ELSE IF i >= total_items THEN [err |-> "OutOfBounds", id |-> 0, bits |-> bits]
    ELSE IF (i \in bits) # value
         THEN [err |-> "Ok", id |-> i,
               bits |-> IF value THEN bits \cup {i} ELSE bits \ {i}]
         ELSE ScanFirstFit(bits, cap, total_items, value, i + 1)

set_first_fit_bit(bits, bitmap_blocks, total_items, value) ==
    ScanFirstFit(bits, bitmap_blocks * BLOCK_SIZE * 8, total_items, value, 0)

set_bit_at(bits, bitmap_blocks, item_id, total_items, set_value) ==
    IF item_id >= total_items THEN [err |-> "OutOfBounds", pre |-> FALSE, bits |-> bits]
    ELSE IF item_id \div (BLOCK_SIZE * 8) >= bitmap_blocks
         THEN [err |-> "OutOfBounds", pre |-> FALSE, bits |-> bits]
    ELSE [err |-> "Ok", pre |-> item_id \in bits,
          bits |-> IF set_value THEN bits \cup {item_id} ELSE bits \ {item_id}]

\* alloc_data_block that sets the bit and leaves free_blocks as it was.
alloc_data_block_uncounted(w) ==
    LET After(r) ==
          IF r.err # "Ok" THEN [w |-> w, err |-> r.err, v |-> 0]
          ELSE [w |-> Logged(Logged([w EXCEPT !.dev.dbm = r.bits,
                                              !.dev.blk[r.id + w.sb.data_start] = ZeroBlock],
                                    "bitmap", 0), "data", r.id + w.sb.data_start),
                err |-> "Ok", v |-> r.id + w.sb.data_start]
    IN After(set_first_fit_bit(w.dev.dbm, w.sb.data_bitmap_blocks,
                               w.sb.num_blocks - w.sb.data_start, TRUE))

\* alloc_data_block that returns the block with the bytes it holds.
alloc_data_block_dirty(w) ==
    LET After(r) ==
          IF r.err # "Ok" THEN [w |-> w, err |-> r.err, v |-> 0]
          ELSE LET sb1 == [w.sb EXCEPT !.free_blocks = @ - 1]
                   bid == r.id + w.sb.data_start
               IN [w |-> Logged(Logged(Logged(
                              [w EXCEPT !.sb = sb1, !.dev.sb = SuperBlockWords(sb1),
                                        !.dev.dbm = r.bits],
                              "bitmap", 0), "superblock", 0), "data", bid),
                   err |-> "Ok", v |-> bid]
    IN After(set_first_fit_bit(w.dev.dbm, w.sb.data_bitmap_blocks,
                               w.sb.num_blocks - w.sb.data_start, TRUE))

alloc_data_block(w) ==
    LET After(r) ==
          IF r.err # "Ok" THEN [w |-> w, err |-> r.err, v |-> 0]
          ELSE LET sb1 == [w.sb EXCEPT !.free_blocks = @ - 1]
                   bid == r.id + w.sb.data_start
               IN [w |-> Logged(Logged(Logged(
                              [w EXCEPT !.sb = sb1, !.dev.sb = SuperBlockWords(sb1),
                                        !.dev.dbm = r.bits, !.dev.blk[bid] = ZeroBlock],
                              "bitmap", 0), "superblock", 0), "data", bid),
                   err |-> "Ok", v |-> bid]
    IN After(set_first_fit_bit(w.dev.dbm, w.sb.data_bitmap_blocks,
                               w.sb.num_blocks - w.sb.data_start, TRUE))

free_data_block(w, block_id) ==
    LET After(r) ==
          IF r.err # "Ok" THEN [w |-> w, err |-> r.err]
          ELSE LET sb1 == [w.sb EXCEPT !.free_blocks = @ + 1]
               IN [w |-> Logged(Logged(
                              [w EXCEPT !.sb = sb1, !.dev.sb = SuperBlockWords(sb1),
                                        !.dev.dbm = r.bits],
                              "bitmap", 0), "superblock", 0),
                   err |-> "Ok"]
    IN IF block_id < w.sb.data_start
       THEN [w |-> w, err |-> IF w.oc THEN "Panic" ELSE "OutOfBounds"]
       ELSE IF block_id - w.sb.data_start >= w.sb.num_blocks - w.sb.data_start
       THEN [w |-> w, err |-> "OutOfBounds"]
       ELSE After(set_bit_at(w.dev.dbm, w.sb.data_bitmap_blocks,
                             block_id - w.sb.data_start,
                             w.sb.num_blocks - w.sb.data_start, FALSE))

\* alloc_inode_id that takes the id after the highest allocated one.
alloc_inode_id_after_highest(w) ==
    LET used == {k \in w.dev.ibm : k < w.sb.num_inodes}
        id == IF used = {} THEN 0 ELSE 1 + (CHOOSE m \in used : \A k \in used : k <= m)
        sb1 == [w.sb EXCEPT !.free_inodes = @ - 1]
    IN IF id >= w.sb.num_inodes THEN [w |-> w, err |-> "NotFound", v |-> 0]
       ELSE [w |-> Logged(Logged(
                        [w EXCEPT !.sb = sb1, !.dev.sb = SuperBlockWords(sb1),
                                  !.dev.ibm = @ \cup {id}],
                        "bitmap", 0), "superblock", 0),
             err |-> "Ok", v |-> id]

alloc_inode_id(w) ==
    LET After(r) ==
          IF r.err # "Ok" THEN [w |-> w, err |-> r.err, v |-> 0]
          ELSE LET sb1 == [w.sb EXCEPT !.free_inodes = @ - 1]
               IN [w |-> Logged(Logged(
                              [w EXCEPT !.sb = sb1, !.dev.sb = SuperBlockWords(sb1),
                                        !.dev.ibm = r.bits],
                              "bitmap", 0), "superblock", 0),
                   err |-> "Ok", v |-> r.id]
    IN After(set_first_fit_bit(w.dev.ibm, w.sb.inode_bitmap_blocks, w.sb.num_inodes, TRUE))

\* free_inode_id that clears the bit and forgets the superblock counter.
free_inode_id_no_count(w, inode_id) ==
    LET After(r) ==
          IF r.err # "Ok" THEN [w |-> w, err |-> r.err]
          ELSE [w |-> Logged([w EXCEPT !.dev.ibm = r.bits], "bitmap", 0), err |-> "Ok"]
    IN After(set_bit_at(w.dev.ibm, w.sb.inode_bitmap_blocks, inode_id,
                        w.sb.num_inodes, FALSE))

free_inode_id(w, inode_id) ==
    LET After(r) ==
          IF r.err # "Ok" THEN [w |-> w, err |-> r.err]
          ELSE LET sb1 == [w.sb EXCEPT !.free_inodes = @ + 1]
               IN [w |-> Logged(Logged(
                              [w EXCEPT !.sb = sb1, !.dev.sb = SuperBlockWords(sb1),
                                        !.dev.ibm = r.bits],
                              "bitmap", 0), "superblock", 0),
                   err |-> "Ok"]
    IN After(set_bit_at(w.dev.ibm, w.sb.inode_bitmap_blocks, inode_id,
                        w.sb.num_inodes, FALSE))

(***************************************************************************)
(* inode.rs                                                                *)
(***************************************************************************)
get_inode(w, inode_id) ==
    IF inode_id >= w.sb.num_inodes THEN [err |-> "OutOfBounds", ino |-> InodeZERO]
    ELSE [err |-> "Ok", ino |-> w.dev.itab[inode_id]]

write_inode(w, inode) == Logged([w EXCEPT !.dev.itab[inode.id] = inode], "inode", inode.id)

alloc_inode(w, ftype, mode) ==
    LET After(a) ==
          IF a.err # "Ok" THEN [w |-> a.w, err |-> a.err, ino |-> InodeZERO]
          ELSE [w |-> write_inode(a.w, InodeNew(ftype, mode, a.v)), err |-> "Ok",
                ino |-> InodeNew(ftype, mode, a.v)]
    IN After(alloc_inode_id(w))

\* u32 slot k of a block of pointers.
PtrAt(block, k) == block[k * PTR_SIZE]

RECURSIVE FreeEach(_, _)
\* free_data_block(..)? over a list of block ids, in order.
FreeEach(w, ids) ==
    LET After(r) == IF r.err # "Ok" THEN r ELSE FreeEach(r.w, Tail(ids))
    IN IF ids = << >> THEN [w |-> w, err |-> "Ok"]
       ELSE After(free_data_block(w, Head(ids)))

NonZero(x) == x # 0

\* The pointers held by the indirect block of an inode, then the block itself.
IndirectIds(w, inode) ==
    IF inode.indirect = 0 THEN << >>
    ELSE SelectSeq([k \in 1..PTRS_PER_BLOCK |-> PtrAt(w.dev.blk[inode.indirect], k - 1)],
                   NonZero) \o <<inode.indirect>>

free_inode(w, inode_id) ==
    LET inode == get_inode(w, inode_id).ino
        AfterId(f) ==
          IF f.err # "Ok" THEN [w |-> f.w, err |-> f.err, ino |-> inode]
          ELSE [w |-> write_inode(f.w, [InodeZERO EXCEPT !.id = inode_id]),
                err |-> "Ok", ino |-> inode]
        AfterIndirect(x) ==
          IF x.err # "Ok" THEN [w |-> x.w, err |-> x.err, ino |-> inode]
          ELSE AfterId(free_inode_id(x.w, inode_id))
        AfterDirect(d) ==
          IF d.err # "Ok" THEN [w |-> d.w, err |-> d.err, ino |-> inode]
          ELSE AfterIndirect(FreeEach(d.w, IndirectIds(d.w, inode)))
    IN IF get_inode(w, inode_id).err # "Ok"
       THEN [w |-> w, err |-> get_inode(w, inode_id).err, ino |-> inode]
       ELSE AfterDirect(FreeEach(w, SelectSeq(inode.direct, NonZero)))

\* bmap that writes the inode with its recomputed size before it fails with
\* FileTooLarge.
bmap_persisting(w, inode, file_offset, create) ==
    LET block_offset == file_offset \div BLOCK_SIZE
        indirect_offset == block_offset - NUM_DIRECT_PTRS
        ino1 == IF create /\ file_offset >= inode.size
                THEN [inode EXCEPT !.size = file_offset + 1,
                                   !.blocks = (file_offset + 1 + BLOCK_SIZE - 1) \div BLOCK_SIZE]
                ELSE inode
        AfterDirect(a) ==
          IF a.err # "Ok" THEN [w |-> a.w, err |-> a.err, ino |-> ino1, v |-> 0]
          ELSE LET ino2 == [ino1 EXCEPT !.direct[block_offset + 1] = a.v, !.blocks = @ + 1]
               IN [w |-> write_inode(a.w, ino2), err |-> "Ok", ino |-> ino2, v |-> a.v]
        AfterData(b, ino2) ==
          IF b.err # "Ok" THEN [w |-> b.w, err |-> b.err, ino |-> ino2, v |-> 0]
          ELSE LET ino3 == [ino2 EXCEPT !.blocks = @ + 1]
               IN [w |-> Logged([write_inode(b.w, ino3)
                                    EXCEPT !.dev.blk[ino2.indirect][indirect_offset * PTR_SIZE] = b.v],
                                "data", ino2.indirect),
                   err |-> "Ok", ino |-> ino3, v |-> b.v]
        AfterIndirect(a) ==
          IF a.err # "Ok" THEN [w |-> a.w, err |-> a.err, ino |-> ino1, v |-> 0]
          ELSE LET ino2 == [ino1 EXCEPT !.indirect = a.v]
                   data_block_id == PtrAt(a.w.dev.blk[a.v], indirect_offset)
               IN IF data_block_id # 0
                  THEN [w |-> a.w, err |-> "Ok", ino |-> ino2, v |-> data_block_id]
                  ELSE IF ~create
                  THEN [w |-> a.w, err |-> "OutOfBounds", ino |-> ino2, v |-> 0]
                  ELSE AfterData(alloc_data_block(a.w), ino2)
    IN IF file_offset % BLOCK_SIZE # 0
       THEN [w |-> w, err |-> "InvalidArgument", ino |-> inode, v |-> 0]
       ELSE IF block_offset < NUM_DIRECT_PTRS
       THEN IF ino1.direct[block_offset + 1] # 0
            THEN [w |-> w, err |-> "Ok", ino |-> ino1, v |-> ino1.direct[block_offset + 1]]
            ELSE IF create THEN AfterDirect(alloc_data_block(w))
            ELSE [w |-> w, err |-> "OutOfBounds", ino |-> ino1, v |-> 0]
       ELSE IF indirect_offset >= PTRS_PER_BLOCK
       THEN [w |-> write_inode(w, ino1), err |-> "FileTooLarge", ino |-> ino1, v |-> 0]
       ELSE IF ino1.indirect # 0
       THEN AfterIndirect([w |-> w, err |-> "Ok", v |-> ino1.indirect])
       ELSE IF create THEN AfterIndirect(alloc_data_block(w))
       ELSE [w |-> w, err |-> "OutOfBounds", ino |-> ino1, v |-> 0]

\* bmap that allocates the missing block whatever create says.
bmap_creating(w, inode, file_offset, create) ==
    LET block_offset == file_offset \div BLOCK_SIZE
        indirect_offset == block_offset - NUM_DIRECT_PTRS
        ino1 == IF TRUE /\ file_offset >= inode.size
                THEN [inode EXCEPT !.size = file_offset + 1,
                                   !.blocks = (file_offset + 1 + BLOCK_SIZE - 1) \div BLOCK_SIZE]
                ELSE inode
        AfterDirect(a) ==
          IF a.err # "Ok" THEN [w |-> a.w, err |-> a.err, ino |-> ino1, v |-> 0]
          ELSE LET ino2 == [ino1 EXCEPT !.direct[block_offset + 1] = a.v, !.blocks = @ + 1]
               IN [w |-> write_inode(a.w, ino2), err |-> "Ok", ino |-> ino2, v |-> a.v]
        AfterData(b, ino2) ==
          IF b.err # "Ok" THEN [w |-> b.w, err |-> b.err, ino |-> ino2, v |-> 0]
          ELSE LET ino3 == [ino2 EXCEPT !.blocks = @ + 1]
               IN [w |-> Logged([write_inode(b.w, ino3)
                                    EXCEPT !.dev.blk[ino2.indirect][indirect_offset * PTR_SIZE] = b.v],
                                "data", ino2.indirect),
                   err |-> "Ok", ino |-> ino3, v |-> b.v]
        AfterIndirect(a) ==
          IF a.err # "Ok" THEN [w |-> a.w, err |-> a.err, ino |-> ino1, v |-> 0]
          ELSE LET ino2 == [ino1 EXCEPT !.indirect = a.v]
                   data_block_id == PtrAt(a.w.dev.blk[a.v], indirect_offset)
               IN IF data_block_id # 0
                  THEN [w |-> a.w, err |-> "Ok", ino |-> ino2, v |-> data_block_id]
                  ELSE IF FALSE
                  THEN [w |-> a.w, err |-> "OutOfBounds", ino |-> ino2, v |-> 0]
                  ELSE AfterData(alloc_data_block(a.w), ino2)
    IN IF file_offset % BLOCK_SIZE # 0
       THEN [w |-> w, err |-> "InvalidArgument", ino |-> inode, v |-> 0]
       ELSE IF block_offset < NUM_DIRECT_PTRS
       THEN IF ino1.direct[block_offset + 1] # 0
            THEN [w |-> w, err |-> "Ok", ino |-> ino1, v |-> ino1.direct[block_offset + 1]]
            ELSE IF TRUE THEN AfterDirect(alloc_data_block(w))
            ELSE [w |-> w, err |-> "OutOfBounds", ino |-> ino1, v |-> 0]
       ELSE IF indirect_offset >= PTRS_PER_BLOCK
       THEN [w |-> w, err |-> "FileTooLarge", ino |-> ino1, v |-> 0]
       ELSE IF ino1.indirect # 0
       THEN AfterIndirect([w |-> w, err |-> "Ok", v |-> ino1.indirect])
       ELSE IF TRUE THEN AfterIndirect(alloc_data_block(w))
       ELSE [w |-> w, err |-> "OutOfBounds", ino |-> ino1, v |-> 0]

\* bmap: returns the (mutated) caller's inode in ino and the block id in v.
bmap(w, inode, file_offset, create) ==
    LET block_offset == file_offset \div BLOCK_SIZE
        indirect_offset == block_offset - NUM_DIRECT_PTRS
        ino1 == IF create /\ file_offset >= inode.size
                THEN [inode EXCEPT !.size = file_offset + 1,
                                   !.blocks = (file_offset + 1 + BLOCK_SIZE - 1) \div BLOCK_SIZE]
                ELSE inode
        AfterDirect(a) ==
          IF a.err # "Ok" THEN [w |-> a.w, err |-> a.err, ino |-> ino1, v |-> 0]
          ELSE LET ino2 == [ino1 EXCEPT !.direct[block_offset + 1] = a.v, !.blocks = @ + 1]
               IN [w |-> write_inode(a.w, ino2), err |-> "Ok", ino |-> ino2, v |-> a.v]
        AfterData(b, ino2) ==
          IF b.err # "Ok" THEN [w |-> b.w, err |-> b.err, ino |-> ino2, v |-> 0]
          ELSE LET ino3 == [ino2 EXCEPT !.blocks = @ + 1]
               IN [w |-> Logged([write_inode(b.w, ino3)
                                    EXCEPT !.dev.blk[ino2.indirect][indirect_offset * PTR_SIZE] = b.v],
                                "data", ino2.indirect),
                   err |-> "Ok", ino |-> ino3, v |-> b.v]
        AfterIndirect(a) ==
          IF a.err # "Ok" THEN [w |-> a.w, err |-> a.err, ino |-> ino1, v |-> 0]
          ELSE LET ino2 == [ino1 EXCEPT !.indirect = a.v]
                   data_block_id == PtrAt(a.w.dev.blk[a.v], indirect_offset)
               IN IF data_block_id # 0
                  THEN [w |-> a.w, err |-> "Ok", ino |-> ino2, v |-> data_block_id]
                  ELSE IF ~create
                  THEN [w |-> a.w, err |-> "OutOfBounds", ino |-> ino2, v |-> 0]
                  ELSE AfterData(alloc_data_block(a.w), ino2)
    IN IF file_offset % BLOCK_SIZE # 0
       THEN [w |-> w, err |-> "InvalidArgument", ino |-> inode, v |-> 0]
       ELSE IF block_offset < NUM_DIRECT_PTRS
       THEN IF ino1.direct[block_offset + 1] # 0
            THEN [w |-> w, err |-> "Ok", ino |-> ino1, v |-> ino1.direct[block_offset + 1]]
            ELSE IF create THEN AfterDirect(alloc_data_block(w))
            ELSE [w |-> w, err |-> "OutOfBounds", ino |-> ino1, v |-> 0]
       ELSE IF indirect_offset >= PTRS_PER_BLOCK
       THEN [w |-> w, err |-> "FileTooLarge", ino |-> ino1, v |-> 0]
       ELSE IF ino1.indirect # 0
       THEN AfterIndirect([w |-> w, err |-> "Ok", v |-> ino1.indirect])
       ELSE IF create THEN AfterIndirect(alloc_data_block(w))
       ELSE [w |-> w, err |-> "OutOfBounds", ino |-> ino1, v |-> 0]

(***************************************************************************)
(* directory.rs                                                            *)
(* Entry j of a block: cell j*DIR_ENTRY_SIZE is inode_id, the next cell    *)
(* the name.  name_cmp on trimmed names is equality of the name numbers.   *)
(***************************************************************************)
name_cmp(n1, n2) == n1 = n2

name_is_empty(name) == name = 0

DirEntryNew(inode_id, name) ==
    IF name = 0 THEN [err |-> "InvalidFileName", inode_id |-> 0, name |-> 0]
    ELSE [err |-> "Ok", inode_id |-> inode_id, name |-> name]

RECURSIVE dir_lookup_scan(_, _, _, _, _, _)
\* Loop state of dir_lookup: block i, slot j, num_looked_up.
dir_lookup_scan(w, parent, name, i, j, looked) ==
    LET After(b) ==
          IF b.err # "Ok" THEN [err |-> b.err, v |-> 0]
          ELSE IF j >= NUM_ENTRY_PER_BLOCK \/ looked >= parent.size \div DIR_ENTRY_SIZE
          THEN dir_lookup_scan(w, parent, name, i + 1, 0, looked)
          ELSE IF w.dev.blk[b.v][j * DIR_ENTRY_SIZE] = 0
          THEN dir_lookup_scan(w, parent, name, i, j + 1, looked)
          ELSE IF name_cmp(w.dev.blk[b.v][j * DIR_ENTRY_SIZE + 1], name)
          THEN [err |-> "Ok", v |-> w.dev.blk[b.v][j * DIR_ENTRY_SIZE]]
          ELSE dir_lookup_scan(w, parent, name, i, j + 1, looked + 1)
    IN IF i >= parent.blocks THEN [err |-> "NotFound", v |-> 0]
       ELSE After(bmap(w, parent, i * BLOCK_SIZE, FALSE))

dir_lookup(w, parent, name) ==
    IF parent.ftype # "Directory" THEN [err |-> "NotDirectory", v |-> 0]
    ELSE dir_lookup_scan(w, parent, name, 0, 0, 0)

RECURSIVE dir_add_scan(_, _, _, _)
\* The 'found_slot loop of dir_add_entry.
dir_add_scan(w, parent, i, j) ==
    LET After(b) ==
          IF b.err # "Ok" THEN [err |-> b.err, found |-> FALSE, block_id |-> 0, off |-> 0]
          ELSE IF j >= NUM_ENTRY_PER_BLOCK THEN dir_add_scan(w, parent, i + 1, 0)
          ELSE IF /\ w.dev.blk[b.v][j * DIR_ENTRY_SIZE] = 0
                  /\ name_is_empty(w.dev.blk[b.v][j * DIR_ENTRY_SIZE + 1])
          THEN [err |-> "Ok", found |-> TRUE, block_id |-> b.v, off |-> j * DIR_ENTRY_SIZE]
          ELSE dir_add_scan(w, parent, i, j + 1)
    IN IF i >= parent.blocks THEN [err |-> "Ok", found |-> FALSE, block_id |-> 0, off |-> 0]
       ELSE After(bmap(w, parent, i * BLOCK_SIZE, FALSE))

WriteEntry(w, block_id, off, inode_id, name) ==
    Logged([w EXCEPT !.dev.blk[block_id][off] = inode_id, !.dev.blk[block_id][off + 1] = name],
           "data", block_id)

dir_add_entry(w, parent, child_entry) ==
    LET prev_size == parent.size
        num_dirents == prev_size \div DIR_ENTRY_SIZE
        AfterMap(b) ==
          IF b.err # "Ok" THEN [w |-> b.w, err |-> b.err, ino |-> b.ino]
          ELSE LET p1 == [b.ino EXCEPT !.size = (num_dirents + 1) * DIR_ENTRY_SIZE]
               IN [w |-> WriteEntry(write_inode(b.w, p1), b.v, prev_size % BLOCK_SIZE,
                                    child_entry.inode_id, child_entry.name),
                   err |-> "Ok", ino |-> p1]
        AfterScan(s) ==
          IF s.err # "Ok" THEN [w |-> w, err |-> s.err, ino |-> parent]
          ELSE IF s.found
          THEN LET p1 == [parent EXCEPT !.size = prev_size + DIR_ENTRY_SIZE]
                   new_blocks == (p1.size + BLOCK_SIZE - 1) \div BLOCK_SIZE
                   w1 == write_inode([w EXCEPT !.af = @ \/ (new_blocks # parent.blocks)], p1)
               IN [w |-> WriteEntry(w1, s.block_id, s.off, child_entry.inode_id,
                                    child_entry.name),
                   err |-> "Ok", ino |-> p1]
          ELSE AfterMap(bmap(w, parent, prev_size, TRUE))
    IN IF parent.ftype # "Directory" THEN [w |-> w, err |-> "NotDirectory", ino |-> parent]
       ELSE IF dir_lookup(w, parent, child_entry.name).err = "Ok"
       THEN [w |-> w, err |-> "AlreadyExists", ino |-> parent]
       ELSE AfterScan(dir_add_scan(w, parent, 0, 0))

RECURSIVE dir_rm_scan(_, _, _, _, _, _)
\* The 'found_entry loop of dir_rm_entry.
dir_rm_scan(w, parent, name, i, j, looked) ==
    LET After(b) ==
          IF b.err # "Ok" THEN [err |-> b.err, v |-> 0, block_id |-> 0, off |-> 0]
          ELSE IF j >= NUM_ENTRY_PER_BLOCK \/ looked >= parent.size \div DIR_ENTRY_SIZE
          THEN dir_rm_scan(w, parent, name, i + 1, 0, looked)
          ELSE IF w.dev.blk[b.v][j * DIR_ENTRY_SIZE] = 0
          THEN dir_rm_scan(w, parent, name, i, j + 1, looked)
          ELSE IF name_cmp(w.dev.blk[b.v][j * DIR_ENTRY_SIZE + 1], name)
          THEN [err |-> "Ok", v |-> w.dev.blk[b.v][j * DIR_ENTRY_SIZE], block_id |-> b.v,
                off |-> j * DIR_ENTRY_SIZE]
          ELSE dir_rm_scan(w, parent, name, i, j + 1, looked + 1)
    IN IF i >= parent.blocks THEN [err |-> "NotFound", v |-> 0, block_id |-> 0, off |-> 0]
       ELSE After(bmap(w, parent, i * BLOCK_SIZE, FALSE))

dir_rm_entry(w, parent, name) ==
    LET After(s) ==
          IF s.err # "Ok" THEN [w |-> w, err |-> s.err, ino |-> parent, v |-> 0]
          ELSE LET p1 == [parent EXCEPT !.size = @ - DIR_ENTRY_SIZE]
               IN [w |-> WriteEntry(write_inode(w, p1), s.block_id, s.off, 0, 0),
                   err |-> "Ok", ino |-> p1, v |-> s.v]
    IN IF parent.ftype # "Directory"
       THEN [w |-> w, err |-> "NotDirectory", ino |-> parent, v |-> 0]
       ELSE IF name = 0 THEN [w |-> w, err |-> "InvalidFileName", ino |-> parent, v |-> 0]
       ELSE IF name_cmp(name, DOT_NAME) \/ name_cmp(name, DOTDOT_NAME)
       THEN [w |-> w, err |-> "InvalidFileName", ino |-> parent, v |-> 0]
       ELSE After(dir_rm_scan(w, parent, name, 0, 0, 0))

dir_is_empty(w, dir_inode) ==
    IF dir_inode.ftype # "Directory" THEN [err |-> "NotDirectory", v |-> FALSE]
    ELSE IF dir_inode.size \div DIR_ENTRY_SIZE = 2 THEN [err |-> "Ok", v |-> TRUE]
    ELSE IF dir_inode.size \div DIR_ENTRY_SIZE < 2 THEN [err |-> "Panic", v |-> FALSE]
    ELSE [err |-> "Ok", v |-> FALSE]

\* mkdir: ino is the caller's parent inode after the call, v the new id.
mkdir(w, parent, dir_name) ==
    LET AfterDotDot(e3, p1) ==
          IF e3.err # "Ok" THEN [w |-> e3.w, err |-> e3.err, ino |-> p1, v |-> 0]
          ELSE LET p2 == [p1 EXCEPT !.links_cnt = @ + 1]
                   failed == e3.ino.size # 2 * DIR_ENTRY_SIZE \/ e3.ino.blocks # 1
               IN [w |-> write_inode(write_inode([e3.w EXCEPT !.af = @ \/ failed], p2),
                                     e3.ino),
                   err |-> "Ok", ino |-> p2, v |-> e3.ino.id]
        AfterDot(e2, p1) ==
          IF e2.err # "Ok" THEN [w |-> e2.w, err |-> e2.err, ino |-> p1, v |-> 0]
          ELSE AfterDotDot(dir_add_entry(e2.w, [e2.ino EXCEPT !.links_cnt = @ + 1],
                                         DirEntryNew(parent.id, DOTDOT_NAME)), p1)
        AfterName(e1, dir_inode) ==
          IF e1.err # "Ok" THEN [w |-> e1.w, err |-> e1.err, ino |-> e1.ino, v |-> 0]
          ELSE AfterDot(dir_add_entry(e1.w, [dir_inode EXCEPT !.links_cnt = @ + 1],
                                      DirEntryNew(dir_inode.id, DOT_NAME)), e1.ino)
        AfterAlloc(a) ==
          IF a.err # "Ok" THEN [w |-> a.w, err |-> a.err, ino |-> parent, v |-> 0]
          ELSE AfterName(dir_add_entry(a.w, parent, DirEntryNew(a.ino.id, dir_name)), a.ino)
    IN IF parent.ftype # "Directory"
       THEN [w |-> w, err |-> "NotDirectory", ino |-> parent, v |-> 0]
       ELSE IF dir_name = 0 THEN [w |-> w, err |-> "InvalidFileName", ino |-> parent, v |-> 0]
       ELSE IF name_cmp(dir_name, DOT_NAME) \/ name_cmp(dir_name, DOTDOT_NAME)
       THEN [w |-> w, err |-> "InvalidFileName", ino |-> parent, v |-> 0]
       ELSE IF dir_lookup(w, parent, dir_name).err = "Ok"
       THEN [w |-> w, err |-> "AlreadyExists", ino |-> parent, v |-> 0]
       ELSE AfterAlloc(alloc_inode(w, "Directory", "RW"))

RECURSIVE read_dir_scan(_, _, _, _, _, _)
\* Loop state of read_dir: block i of num_blocks, slot j, the entries pushed.
read_dir_scan(w, dir_inode, num_blocks, i, j, entries) ==
    LET After(b) ==
          IF b.err # "Ok" THEN [err |-> b.err, entries |-> << >>]
          ELSE IF \/ j >= NUM_ENTRY_PER_BLOCK
                  \/ i * NUM_ENTRY_PER_BLOCK + j >= dir_inode.size \div DIR_ENTRY_SIZE
          THEN read_dir_scan(w, dir_inode, num_blocks, i + 1, 0, entries)
          ELSE IF \/ w.dev.blk[b.v][j * DIR_ENTRY_SIZE] # 0
                  \/ ~name_is_empty(w.dev.blk[b.v][j * DIR_ENTRY_SIZE + 1])
          THEN read_dir_scan(w, dir_inode, num_blocks, i, j + 1,
                             Append(entries, [inode_id |-> w.dev.blk[b.v][j * DIR_ENTRY_SIZE],
                                              name |-> w.dev.blk[b.v][j * DIR_ENTRY_SIZE + 1]]))
          ELSE read_dir_scan(w, dir_inode, num_blocks, i, j + 1, entries)
    IN IF i >= num_blocks THEN [err |-> "Ok", entries |-> entries]
       ELSE After(bmap(w, dir_inode, i * BLOCK_SIZE, FALSE))

read_dir(w, dir_inode) ==
    IF dir_inode.ftype # "Directory" THEN [err |-> "NotDirectory", entries |-> << >>]
    ELSE read_dir_scan(w, dir_inode, (dir_inode.size + BLOCK_SIZE - 1) \div BLOCK_SIZE,
                       0, 0, << >>)

(***************************************************************************)
(* path.rs                                                                 *)
(* A path is [abs, comps]: whether it starts with '/', and its non-empty   *)
(* components (what split('/').filter(non-empty) yields).                  *)
(***************************************************************************)
SYMLOOP_MAX == 3
MAX_PATH_LEN == 4

RootPath == [abs |-> TRUE, comps |-> << >>]

Front(s) == SubSeq(s, 1, Len(s) - 1)

split(path) ==
    IF ~path.abs THEN [err |-> "InvalidPath", dir |-> RootPath, name |-> 0]
    ELSE IF path.comps = << >> THEN [err |-> "Ok", dir |-> RootPath, name |-> 0]
    ELSE [err |-> "Ok", dir |-> [abs |-> TRUE, comps |-> Front(path.comps)],
          name |-> path.comps[Len(path.comps)]]

\* One more pass through the top of canonicalize's loop; steps counts them.
Tick(r) == [r EXCEPT !.steps = @ + 1]

\* One more symlink expanded (link_depth += 1); links counts them.
Hop(r) == [r EXCEPT !.links = @ + 1]

RECURSIVE canonicalize_loop(_, _, _, _, _, _, _)
\* Loop state of canonicalize: canonical_components, current_inode_id,
\* parent_inode_id, link_depth, components_to_process.
canonicalize_loop(w, not_cano_last_symlink, canon, cur_id, par_id, link_depth, todo) ==
    LET cur_component == Head(todo)
        rest == Tail(todo)
        AfterGet(next_id, g) ==
          IF g.err # "Ok" THEN [err |-> g.err, comps |-> << >>, steps |-> 0, links |-> 0]
          ELSE IF g.ino.ftype = "Symlink"
          THEN IF rest = << >> /\ not_cano_last_symlink
               THEN [err |-> "Ok", comps |-> Append(canon, cur_component), steps |-> 0, links |-> 0]
               ELSE IF g.ino.path.abs
               THEN Hop(canonicalize_loop(w, not_cano_last_symlink, << >>,
                                          ROOT_INODE_ID, ROOT_INODE_ID, link_depth + 1,
                                          g.ino.path.comps \o rest))
               ELSE Hop(canonicalize_loop(w, not_cano_last_symlink, canon,
                                          cur_id, par_id, link_depth + 1,
                                          g.ino.path.comps \o rest))
          ELSE IF g.ino.ftype # "Directory" /\ rest # << >>
          THEN [err |-> "NotDirectory", comps |-> << >>, steps |-> 0, links |-> 0]
          ELSE IF rest = << >>
          THEN [err |-> "Ok", comps |-> Append(canon, cur_component), steps |-> 0, links |-> 0]
          ELSE canonicalize_loop(w, not_cano_last_symlink, Append(canon, cur_component),
                                 next_id, cur_id, link_depth, rest)
        AfterLookup(l) ==
          IF l.err # "Ok" THEN [err |-> l.err, comps |-> << >>, steps |-> 0, links |-> 0]
          ELSE AfterGet(l.v, get_inode(w, l.v))
    IN Tick(
       IF link_depth >= SYMLOOP_MAX THEN [err |-> "PathTooLong", comps |-> << >>, steps |-> 0, links |-> 0]
       ELSE IF todo = << >> THEN [err |-> "Ok", comps |-> canon, steps |-> 0, links |-> 0]
       ELSE IF cur_component = DOT_NAME
       THEN canonicalize_loop(w, not_cano_last_symlink, canon, cur_id, par_id, link_depth, rest)
       ELSE IF cur_component = DOTDOT_NAME
       THEN IF cur_id = ROOT_INODE_ID
            THEN canonicalize_loop(w, not_cano_last_symlink, canon, cur_id, par_id,
                                   link_depth, rest)
            ELSE IF get_inode(w, par_id).err # "Ok"
            THEN [err |-> get_inode(w, par_id).err, comps |-> << >>, steps |-> 0, links |-> 0]
            ELSE canonicalize_loop(w, not_cano_last_symlink,
                                   IF canon = << >> THEN canon ELSE Front(canon),
                                   par_id, par_id, link_depth, rest)
       ELSE AfterLookup(dir_lookup(w, get_inode(w, cur_id).ino, cur_component)))

\* canonicalize that reports success when the loop runs out of link depth.
canonicalize_depth_unreported(w, path, not_cano_last_symlink) ==
    LET Hide(c) == IF c.err = "PathTooLong" THEN [c EXCEPT !.err = "Ok"] ELSE c
    IN IF ~path.abs THEN [err |-> "InvalidPath", comps |-> << >>, steps |-> 0, links |-> 0]
       ELSE IF path.comps = << >> THEN [err |-> "Ok", comps |-> << >>, steps |-> 0, links |-> 0]
       ELSE Hide(canonicalize_loop(w, not_cano_last_symlink, << >>, ROOT_INODE_ID,
                                   ROOT_INODE_ID, 0, path.comps))

canonicalize(w, path, not_cano_last_symlink) ==
    IF ~path.abs THEN [err |-> "InvalidPath", comps |-> << >>, steps |-> 0, links |-> 0]
    ELSE IF path.comps = << >> THEN [err |-> "Ok", comps |-> << >>, steps |-> 0, links |-> 0]
    ELSE IF get_inode(w, ROOT_INODE_ID).err # "Ok"
    THEN [err |-> get_inode(w, ROOT_INODE_ID).err, comps |-> << >>, steps |-> 0, links |-> 0]
    ELSE canonicalize_loop(w, not_cano_last_symlink, << >>, ROOT_INODE_ID, ROOT_INODE_ID,
                           0, path.comps)

RECURSIVE resolve_walk(_, _, _, _)
\* The component loop shared textually by resolve and resolve_without_last.
resolve_walk(w, components, i, current_inode_id) ==
    LET AfterLookup(l) ==
          IF l.err # "Ok" THEN [err |-> l.err, parent |-> 0, v |-> 0]
          ELSE IF i = Len(components)
          THEN [err |-> "Ok", parent |-> current_inode_id, v |-> l.v]
          ELSE resolve_walk(w, components, i + 1, l.v)
        AfterGet(g) ==
          IF g.err # "Ok" THEN [err |-> g.err, parent |-> 0, v |-> 0]
          ELSE IF g.ino.ftype # "Directory" THEN [err |-> "NotDirectory", parent |-> 0, v |-> 0]
          ELSE AfterLookup(dir_lookup(w, g.ino, components[i]))
    IN IF i > Len(components) THEN [err |-> "NotFound", parent |-> 0, v |-> 0]
       ELSE AfterGet(get_inode(w, current_inode_id))

resolve_with(w, path, not_cano_last_symlink) ==
    LET After(c) ==
          IF c.err # "Ok" THEN [err |-> c.err, parent |-> 0, v |-> 0]
          ELSE IF c.comps = << >>
          THEN [err |-> "Ok", parent |-> ROOT_INODE_ID, v |-> ROOT_INODE_ID]
          ELSE resolve_walk(w, c.comps, 1, ROOT_INODE_ID)
    IN IF path = RootPath THEN [err |-> "Ok", parent |-> ROOT_INODE_ID, v |-> ROOT_INODE_ID]
       ELSE IF ~path.abs THEN [err |-> "InvalidPath", parent |-> 0, v |-> 0]
       ELSE After(canonicalize(w, path, not_cano_last_symlink))

\* resolve that leaves a final symlink unexpanded.
resolve_keeping_last_symlink(w, path) == resolve_with(w, path, TRUE)

resolve(w, path) == resolve_with(w, path, FALSE)

\* resolve_without_last that expands a final symlink as resolve does.
resolve_following_last_symlink(w, path) == resolve_with(w, path, FALSE)

resolve_without_last(w, path) == resolve_with(w, path, TRUE)

(***************************************************************************)
(* file.rs                                                                 *)
(***************************************************************************)
RECURSIVE fread_loop(_, _, _, _, _)
\* Loop state of fread: the inode copy, the bytes copied so far (bytes_read
\* = Len(data)) and remain_buf_len; current_offset = offset + bytes_read.
fread_loop(w, inode, offset, data, remain_buf_len) ==
    LET bytes_read == Len(data)
        current_offset == offset + bytes_read
        underflow == inode.size < bytes_read + offset
        bytes_to_read == IF underflow THEN Min(BLOCK_SIZE, remain_buf_len)
                         ELSE Min(Min(BLOCK_SIZE, remain_buf_len),
                                  inode.size - bytes_read - offset)
        start_offset == current_offset % BLOCK_SIZE
        After(b) ==
          IF b.err = "OutOfBounds" THEN [w |-> b.w, err |-> "Ok", ino |-> b.ino, data |-> data]
          ELSE IF b.err # "Ok" THEN [w |-> b.w, err |-> b.err, ino |-> b.ino, data |-> data]
          ELSE IF start_offset + bytes_to_read > BLOCK_SIZE
          THEN [w |-> b.w, err |-> "Panic", ino |-> b.ino, data |-> data]
          ELSE fread_loop(b.w, b.ino, offset,
                          data \o [k \in 1..bytes_to_read |->
                                     b.w.dev.blk[b.v][start_offset + k - 1]],
                          remain_buf_len - bytes_to_read)
    IN IF remain_buf_len = 0 THEN [w |-> w, err |-> "Ok", ino |-> inode, data |-> data]
       ELSE IF underflow /\ w.oc THEN [w |-> w, err |-> "Panic", ino |-> inode, data |-> data]
       ELSE IF bytes_to_read = 0 THEN [w |-> w, err |-> "Ok", ino |-> inode, data |-> data]
       ELSE After(bmap(w, inode, (current_offset \div BLOCK_SIZE) * BLOCK_SIZE, TRUE))

fread(w, inode, offset, buf_len) ==
    IF inode.ftype # "Regular" THEN [w |-> w, err |-> "NotReadable", ino |-> inode, data |-> << >>]
    ELSE fread_loop(w, inode, offset, << >>, buf_len)

RECURSIVE fwrite_loop(_, _, _, _, _)
\* Loop state of fwrite: the inode copy and bytes_written;
\* current_offset = offset + bytes_written.
fwrite_loop(w, inode, offset, buffer, bytes_written) ==
    LET current_offset == offset + bytes_written
        remain_buf_len == Len(buffer) - bytes_written
        bytes_to_write == Min(BLOCK_SIZE, remain_buf_len)
        start_offset == current_offset % BLOCK_SIZE
        After(b) ==
          IF b.err # "Ok" THEN [w |-> b.w, err |-> b.err, ino |-> b.ino, v |-> 0]
          ELSE IF start_offset + bytes_to_write > BLOCK_SIZE
          THEN [w |-> b.w, err |-> "Panic", ino |-> b.ino, v |-> 0]
          ELSE fwrite_loop(Logged([b.w EXCEPT !.dev.blk[b.v] =
                                     [c \in 0..(BLOCK_SIZE - 1) |->
                                        IF c >= start_offset /\ c < start_offset + bytes_to_write
                                        THEN buffer[bytes_written + (c - start_offset) + 1]
                                        ELSE @[c]]],
                                  "data", b.v),
                           b.ino, offset, buffer, bytes_written + bytes_to_write)
    IN IF remain_buf_len = 0
       THEN IF current_offset >= inode.size
            THEN [w |-> write_inode(w, [inode EXCEPT !.size = current_offset]), err |-> "Ok",
                  ino |-> [inode EXCEPT !.size = current_offset], v |-> bytes_written]
            ELSE [w |-> w, err |-> "Ok", ino |-> inode, v |-> bytes_written]
       ELSE After(bmap(w, inode, (current_offset \div BLOCK_SIZE) * BLOCK_SIZE, TRUE))

fwrite(w, inode, offset, buffer) ==
    IF inode.ftype # "Regular" THEN [w |-> w, err |-> "NotWritable", ino |-> inode, v |-> 0]
    ELSE IF buffer = << >> THEN [w |-> w, err |-> "Ok", ino |-> inode, v |-> 0]
    ELSE fwrite_loop(w, inode, offset, buffer, 0)

(***************************************************************************)
(* fs.rs: the FileSystem facade.  Each operator is one method; w is the    *)
(* instance (device + in-memory superblock).                               *)
(***************************************************************************)
RamDisk ==
    [sb |-> [k \in 1..14 |-> 0],
     dbm |-> {}, ibm |-> {},
     itab |-> [i \in 0..(NumInodes - 1) |-> InodeBlank],
     blk |-> [b \in 0..(NumBlocks - 1) |-> ZeroBlock]]

format(device, num_blocks, num_inodes) ==
    LET AfterDotDot(e2) ==
          IF e2.err # "Ok" THEN [w |-> e2.w, err |-> e2.err]
          ELSE LET root_inode == [e2.ino EXCEPT !.links_cnt = 2]
                   failed == root_inode.size # 2 * DIR_ENTRY_SIZE \/ root_inode.blocks # 1
               IN [w |-> write_superblock(write_inode([e2.w EXCEPT !.af = @ \/ failed],
                                                      root_inode)),
                   err |-> "Ok"]
        AfterDot(e1) ==
          IF e1.err # "Ok" THEN [w |-> e1.w, err |-> e1.err]
          ELSE AfterDotDot(dir_add_entry(e1.w, e1.ino, DirEntryNew(ROOT_INODE_ID, DOTDOT_NAME)))
        AfterRoot(a1) ==
          IF a1.err # "Ok" THEN [w |-> a1.w, err |-> a1.err]
          ELSE AfterDot(dir_add_entry([a1.w EXCEPT !.af = @ \/ (a1.ino.id # ROOT_INODE_ID)],
                                      a1.ino, DirEntryNew(ROOT_INODE_ID, DOT_NAME)))
        AfterSpecial(a0) ==
          IF a0.err # "Ok" THEN [w |-> a0.w, err |-> a0.err]
          ELSE AfterRoot(alloc_inode(a0.w, "Directory", "RW"))
        AfterNew(n) ==
          IF n.err # "Ok"
          THEN [w |-> [dev |-> device, sb |-> SuperBlockOfWords(device.sb), af |-> FALSE,
                      oc |-> FALSE, log |-> << >>],
                err |-> n.err]
          ELSE AfterSpecial(alloc_inode(
                 [dev |-> [device EXCEPT !.dbm = {}, !.ibm = {},
                                         !.itab = [i \in DOMAIN device.itab |-> InodeBlank]],
                  sb |-> n.sb, af |-> FALSE, oc |-> FALSE, log |-> << >>],
                 "Special", "None"))
    IN AfterNew(SuperBlockNew(num_blocks, num_inodes))

mount(w) ==
    LET After(r) ==
          IF r.err # "Ok" THEN [w |-> w, err |-> r.err, v |-> 0, data |-> << >>]
          ELSE [w |-> [w EXCEPT !.sb = r.sb], err |-> "Ok", v |-> 0, data |-> << >>]
    IN After(read_superblock(w.dev))

\* How the device's read of block 0 ends: "" it succeeds; "ReadFails" it
\* returns an error and leaves the caller's buffer as it was;
\* "ReadFailsAfterCopy" it returns an error after the bytes were copied.
ReadFaults == {"", "ReadFails", "ReadFailsAfterCopy"}

ZeroWords == [k \in 1..14 |-> 0]

\* What read_superblock has in its zeroed buffer after device.read_block,
\* whose Result it drops.
buf_after_read(dev, fault) == IF fault = "ReadFails" THEN ZeroWords ELSE dev.sb

\* mount of a device whose read of block 0 ends as fault says.
mount_at(w, fault) ==
    LET After(m) == [m EXCEPT !.w.dev = w.dev]
    IN After(mount([w EXCEPT !.dev.sb = buf_after_read(w.dev, fault)]))

unmount(w) == [w |-> write_superblock(w), err |-> "Ok", v |-> 0, data |-> << >>]

Fail(w, err) == [w |-> w, err |-> err, v |-> 0, data |-> << >>]

\* lookup: v is the inode id, data the one-element list holding the file type.
lookup(w, path) ==
    LET AfterGet(id, g) ==
          IF g.err # "Ok" THEN Fail(w, g.err)
          ELSE [w |-> w, err |-> "Ok", v |-> id, data |-> <<g.ino.ftype>>]
        AfterResolve(r) ==
          IF r.err # "Ok" THEN Fail(w, r.err) ELSE AfterGet(r.v, get_inode(w, r.v))
    IN AfterResolve(resolve(w, path))

\* read_link: data holds the stored target path.
fs_read_link(w, link_name) ==
    LET AfterGet(g) ==
          IF g.err # "Ok" THEN Fail(w, g.err)
          ELSE IF g.ino.ftype # "Symlink" THEN Fail(w, "NotSymlink")
          ELSE [w |-> w, err |-> "Ok", v |-> 0, data |-> <<g.ino.path>>]
        AfterResolve(r) ==
          IF r.err # "Ok" THEN Fail(w, r.err) ELSE AfterGet(get_inode(w, r.v))
    IN AfterResolve(resolve_without_last(w, link_name))

\* read_dir: data is the list of entries.
fs_read_dir(w, path) ==
    LET AfterRead(e) ==
          IF e.err # "Ok" THEN Fail(w, e.err)
          ELSE [w |-> w, err |-> "Ok", v |-> 0, data |-> e.entries]
        AfterGet(g) ==
          IF g.err # "Ok" THEN Fail(w, g.err)
          ELSE IF g.ino.ftype # "Directory" THEN Fail(w, "NotDirectory")
          ELSE AfterRead(read_dir(w, g.ino))
        AfterResolve(r) ==
          IF r.err # "Ok" THEN Fail(w, r.err) ELSE AfterGet(get_inode(w, r.v))
    IN AfterResolve(resolve(w, path))

\* The first lines of creat, remove, link and symlink: split the path,
\* resolve the parent path and read the parent inode.  ino is the parent
\* inode, name the last component.
ParentOf(w, path) ==
    LET AfterGet(name, g) ==
          IF g.err # "Ok" THEN [err |-> g.err, ino |-> g.ino, name |-> name]
          ELSE IF g.ino.ftype # "Directory"
          THEN [err |-> "NotDirectory", ino |-> g.ino, name |-> name]
          ELSE [err |-> "Ok", ino |-> g.ino, name |-> name]
        AfterResolve(name, r) ==
          IF r.err # "Ok" THEN [err |-> r.err, ino |-> InodeZERO, name |-> name]
          ELSE AfterGet(name, get_inode(w, r.v))
        AfterSplit(sp) ==
          IF sp.err # "Ok" THEN [err |-> sp.err, ino |-> InodeZERO, name |-> 0]
          ELSE AfterResolve(sp.name, resolve(w, sp.dir))
    IN AfterSplit(split(path))

creat(w, path, file_type, mode) ==
    LET AfterAdd(e, new_inode) ==
          IF e.err # "Ok" THEN Fail(e.w, e.err)
          ELSE [w |-> write_inode(write_inode(e.w, e.ino),
                                  [new_inode EXCEPT !.links_cnt = 1]),
                err |-> "Ok", v |-> new_inode.id, data |-> << >>]
        AfterAlloc(a, p) ==
          IF a.err # "Ok" THEN Fail(a.w, a.err)
          ELSE IF DirEntryNew(a.ino.id, p.name).err # "Ok"
          THEN Fail(a.w, DirEntryNew(a.ino.id, p.name).err)
          ELSE AfterAdd(dir_add_entry(a.w, p.ino, DirEntryNew(a.ino.id, p.name)), a.ino)
        AfterMkdir(m) ==
          IF m.err # "Ok" THEN Fail(m.w, m.err)
          ELSE [w |-> m.w, err |-> "Ok", v |-> m.v, data |-> << >>]
        AfterParent(p) ==
          IF p.err # "Ok" THEN Fail(w, p.err)
          ELSE IF file_type = "Regular" THEN AfterAlloc(alloc_inode(w, "Regular", mode), p)
          ELSE IF file_type = "Directory" THEN AfterMkdir(mkdir(w, p.ino, p.name))
          ELSE Fail(w, "InvalidArgument")
    IN AfterParent(ParentOf(w, path))

\* links_cnt -= 1 on a u32.
Dec(w, x) == IF x > 0 THEN [err |-> "Ok", v |-> x - 1]
             ELSE IF w.oc THEN [err |-> "Panic", v |-> x]
             ELSE [err |-> "Ok", v |-> U32_MAX]

remove(w, path, ftype) ==
    LET AfterFree(f) ==
          IF f.err # "Ok" THEN Fail(f.w, f.err)
          ELSE [w |-> f.w, err |-> "Ok", v |-> 0, data |-> << >>]
        Finish(w1, file_inode, links) ==
          IF links = 0 THEN AfterFree(free_inode(w1, file_inode.id))
          ELSE [w |-> write_inode(w1, [file_inode EXCEPT !.links_cnt = links]),
                err |-> "Ok", v |-> 0, data |-> << >>]
        AfterRm(rm, file_inode) ==
          IF rm.err # "Ok" THEN Fail(rm.w, rm.err)
          ELSE IF Dec(rm.w, file_inode.links_cnt).err # "Ok" THEN Fail(rm.w, "Panic")
          ELSE IF ftype # "Directory"
          THEN Finish(rm.w, file_inode, Dec(rm.w, file_inode.links_cnt).v)
          ELSE IF Dec(rm.w, Dec(rm.w, file_inode.links_cnt).v).err # "Ok"
          THEN Fail(rm.w, "Panic")
          ELSE IF Dec(rm.w, rm.ino.links_cnt).err # "Ok" THEN Fail(rm.w, "Panic")
          ELSE Finish(write_inode(rm.w, [rm.ino EXCEPT
                                           !.links_cnt = Dec(rm.w, rm.ino.links_cnt).v]),
                      file_inode, Dec(rm.w, Dec(rm.w, file_inode.links_cnt).v).v)
        AfterGet(g2, p) ==
          IF g2.err # "Ok" THEN Fail(w, g2.err)
          ELSE IF ftype = "Special" THEN Fail(w, "InvalidArgument")
          ELSE IF g2.ino.ftype # ftype THEN Fail(w, "InvalidArgument")
          ELSE IF ftype = "Directory" /\ dir_is_empty(w, g2.ino).err # "Ok"
          THEN Fail(w, dir_is_empty(w, g2.ino).err)
          ELSE IF ftype = "Directory" /\ ~dir_is_empty(w, g2.ino).v THEN Fail(w, "DirNotEmpty")
          ELSE AfterRm(dir_rm_entry(w, p.ino, p.name), g2.ino)
        AfterResolve(r2, p) ==
          IF r2.err # "Ok" THEN Fail(w, r2.err) ELSE AfterGet(get_inode(w, r2.v), p)
        AfterParent(p) ==
          IF p.err # "Ok" THEN Fail(w, p.err)
          ELSE AfterResolve(IF ftype # "Symlink" THEN resolve(w, path)
                            ELSE resolve_without_last(w, path), p)
    IN AfterParent(ParentOf(w, path))

\* The first lines of fread and fwrite: resolve the path, read the inode,
\* check its type and its mode against the modes the method accepts.
OpenFile(w, path, modes) ==
    LET AfterGet(g) ==
          IF g.err # "Ok" THEN [err |-> g.err, ino |-> g.ino]
          ELSE IF g.ino.ftype # "Regular" THEN [err |-> "NotRegular", ino |-> g.ino]
          ELSE IF g.ino.mode \notin modes THEN [err |-> "PermissionDenied", ino |-> g.ino]
          ELSE [err |-> "Ok", ino |-> g.ino]
        AfterResolve(r) ==
          IF r.err # "Ok" THEN [err |-> r.err, ino |-> InodeZERO]
          ELSE AfterGet(get_inode(w, r.v))
    IN AfterResolve(resolve(w, path))

\* FileSystem::fread: v is the returned count, data the bytes put in buf[0..v].
fs_fread(w, path, offset, buf_len) ==
    LET AfterRead(x) ==
          IF x.err # "Ok" THEN [w |-> x.w, err |-> x.err, v |-> 0, data |-> x.data]
          ELSE [w |-> x.w, err |-> "Ok", v |-> Len(x.data), data |-> x.data]
        AfterOpen(o) ==
          IF o.err # "Ok" THEN Fail(w, o.err)
          ELSE AfterRead(fread(w, o.ino, offset, buf_len))
    IN AfterOpen(OpenFile(w, path, {"Read", "RW", "RWE"}))

fs_fwrite(w, path, offset, buf) ==
    LET AfterWrite(x) ==
          IF x.err # "Ok" THEN Fail(x.w, x.err)
          ELSE [w |-> x.w, err |-> "Ok", v |-> x.v, data |-> << >>]
        AfterOpen(o) ==
          IF o.err # "Ok" THEN Fail(w, o.err)
          ELSE AfterWrite(fwrite(w, o.ino, offset, buf))
    IN AfterOpen(OpenFile(w, path, {"Write", "RW", "RWE"}))

\* link that adds the entry and leaves the target's links_cnt as it was.
link_uncounted(w, target, link_name) ==
    LET AfterAdd(e, target_inode) ==
          IF e.err # "Ok" THEN Fail(e.w, e.err)
          ELSE [w |-> write_inode(e.w, target_inode),
                err |-> "Ok", v |-> target_inode.id, data |-> << >>]
        AfterGet(id, gt, p) ==
          IF gt.err # "Ok" THEN Fail(w, gt.err)
          ELSE IF gt.ino.ftype # "Regular" THEN Fail(w, "NotRegular")
          ELSE IF DirEntryNew(id, p.name).err # "Ok" THEN Fail(w, DirEntryNew(id, p.name).err)
          ELSE AfterAdd(dir_add_entry(w, p.ino, DirEntryNew(id, p.name)), gt.ino)
        AfterTarget(t, p) ==
          IF t.err # "Ok" THEN Fail(w, t.err) ELSE AfterGet(t.v, get_inode(w, t.v), p)
        AfterParent(p) ==
          IF p.err # "Ok" THEN Fail(w, p.err) ELSE AfterTarget(resolve(w, target), p)
    IN AfterParent(ParentOf(w, link_name))

link(w, target, link_name) ==
    LET AfterAdd(e, target_inode) ==
          IF e.err # "Ok" THEN Fail(e.w, e.err)
          ELSE [w |-> write_inode(e.w, [target_inode EXCEPT !.links_cnt = @ + 1]),
                err |-> "Ok", v |-> target_inode.id, data |-> << >>]
        AfterGet(id, gt, p) ==
          IF gt.err # "Ok" THEN Fail(w, gt.err)
          ELSE IF gt.ino.ftype # "Regular" THEN Fail(w, "NotRegular")
          ELSE IF DirEntryNew(id, p.name).err # "Ok" THEN Fail(w, DirEntryNew(id, p.name).err)
          ELSE AfterAdd(dir_add_entry(w, p.ino, DirEntryNew(id, p.name)), gt.ino)
        AfterTarget(t, p) ==
          IF t.err # "Ok" THEN Fail(w, t.err) ELSE AfterGet(t.v, get_inode(w, t.v), p)
        AfterParent(p) ==
          IF p.err # "Ok" THEN Fail(w, p.err) ELSE AfterTarget(resolve(w, target), p)
    IN AfterParent(ParentOf(w, link_name))

\* The length of a path string, counted in components.
PathLen(path) == Len(path.comps)

symlink(w, target, link_name) ==
    LET AfterAdd(e, new_inode) ==
          IF e.err # "Ok" THEN Fail(e.w, e.err)
          ELSE [w |-> write_inode(e.w, [new_inode EXCEPT !.links_cnt = 1, !.path = target]),
                err |-> "Ok", v |-> new_inode.id, data |-> << >>]
        AfterAlloc(a, p) ==
          IF a.err # "Ok" THEN Fail(a.w, a.err)
          ELSE IF DirEntryNew(a.ino.id, p.name).err # "Ok"
          THEN Fail(a.w, DirEntryNew(a.ino.id, p.name).err)
          ELSE AfterAdd(dir_add_entry(a.w, p.ino, DirEntryNew(a.ino.id, p.name)), a.ino)
        AfterParent(p) ==
          IF p.err # "Ok" THEN Fail(w, p.err)
          ELSE AfterAlloc(alloc_inode(w, "Symlink", "Read"), p)
    IN IF PathLen(target) > MAX_PATH_LEN THEN Fail(w, "PathTooLong")
       ELSE AfterParent(ParentOf(w, link_name))

(***************************************************************************)
(* cache.rs and tests/common.rs: the cache shim Cached {device, cache}     *)
(* over a RamDisk and an LruCache.  A block's BLOCK_SIZE bytes are one     *)
(* value (the code copies blocks whole); the deque's front is index 1.     *)
(* c is the shim: [device, cache], cache = [cache (the deque), capacity].  *)
(***************************************************************************)
\* RamDisk::read_block and RamDisk::write_block on a disk of Len(disk) blocks
\* (block id b is disk[b + 1]).
ram_read_block(disk, block_id) ==
    IF block_id >= Len(disk) THEN [err |-> "InvalidBlockId", buf |-> 0]
    ELSE [err |-> "Ok", buf |-> disk[block_id + 1]]

ram_write_block(disk, block_id, buf) ==
    IF block_id >= Len(disk) THEN [err |-> "InvalidBlockId", disk |-> disk]
    ELSE [err |-> "Ok", disk |-> [disk EXCEPT ![block_id + 1] = buf]]

LruCacheNew(capacity) == [cache |-> << >>, capacity |-> capacity]

\* iter().position(|b| b.block_id == block_id); 0 stands for None.
Position(cache, block_id) ==
    IF \E i \in 1..Len(cache) : cache[i].block_id = block_id
    THEN CHOOSE i \in 1..Len(cache) :
           /\ cache[i].block_id = block_id
           /\ \A j \in 1..(i - 1) : cache[j].block_id # block_id
    ELSE 0

\* cache.remove(idx)
RemoveAt(cache, idx) == SubSeq(cache, 1, idx - 1) \o SubSeq(cache, idx + 1, Len(cache))

\* cache.remove(idx) followed by push_front
MoveToFront(cache, idx) == <<cache[idx]>> \o RemoveAt(cache, idx)

\* LruCache::write_cache; victim is the id carried by CacheEvict.
write_cache(lru, block_id, buf) ==
    LET idx == Position(lru.cache, block_id)
    IN IF idx # 0
       THEN [lru |-> [lru EXCEPT !.cache =
                        MoveToFront([@ EXCEPT ![idx].buf = buf, ![idx].dirty = TRUE], idx)],
             err |-> "Ok", victim |-> 0]
       ELSE IF Len(lru.cache) >= lru.capacity
       THEN [lru |-> lru, err |-> "CacheEvict",
             victim |-> lru.cache[Len(lru.cache)].block_id]
       ELSE [lru |-> [lru EXCEPT !.cache =
                        <<[buf |-> buf, block_id |-> block_id, dirty |-> TRUE]>> \o @],
             err |-> "Ok", victim |-> 0]

\* LruCache::read_cache
read_cache(lru, block_id) ==
    LET idx == Position(lru.cache, block_id)
    IN IF idx # 0
       THEN [lru |-> [lru EXCEPT !.cache = MoveToFront(@, idx)], err |-> "Ok",
             buf |-> lru.cache[idx].buf]
       ELSE [lru |-> lru, err |-> "CacheMiss", buf |-> 0]

RECURSIVE cache_flush_loop(_, _, _)
\* The loop of LruCache::flush over the deque, front to back, from index i.
cache_flush_loop(lru, disk, i) ==
    LET AfterWrite(x) ==
          IF x.err # "Ok" THEN [lru |-> lru, disk |-> disk, err |-> x.err]
          ELSE cache_flush_loop([lru EXCEPT !.cache[i].dirty = FALSE], x.disk, i + 1)
    IN IF i > Len(lru.cache) THEN [lru |-> lru, disk |-> disk, err |-> "Ok"]
       ELSE IF lru.cache[i].dirty
       THEN AfterWrite(ram_write_block(disk, lru.cache[i].block_id, lru.cache[i].buf))
       ELSE cache_flush_loop(lru, disk, i + 1)

\* LruCache::flush
cache_flush(lru, disk) == cache_flush_loop(lru, disk, 1)

\* LruCache::evict: the buffer leaves the deque before the device write.
evict(lru, disk, block_id) ==
    LET idx == Position(lru.cache, block_id)
        AfterWrite(removed, x) ==
          [lru |-> removed, disk |-> x.disk, err |-> x.err]
    IN IF idx # 0
       THEN IF lru.cache[idx].dirty
            THEN AfterWrite([lru EXCEPT !.cache = RemoveAt(@, idx)],
                            ram_write_block(disk, block_id, lru.cache[idx].buf))
            ELSE [lru |-> [lru EXCEPT !.cache = RemoveAt(@, idx)], disk |-> disk,
                  err |-> "Ok"]
       ELSE [lru |-> lru, disk |-> disk, err |-> "CacheMiss"]

\* An insertion that hands write_cache's CacheEvict to the caller.
InsertWithoutEvict(c, block_id, buf) ==
    LET AfterWrite(w1) ==
          IF w1.err = "Ok" THEN [c |-> [c EXCEPT !.cache = w1.lru], err |-> "Ok"]
          ELSE [c |-> c, err |-> w1.err]
    IN AfterWrite(write_cache(c.cache, block_id, buf))

\* The insertion both Cached::read_block and Cached::write_block make:
\* write_cache, and on CacheEvict(victim) evict the victim and write_cache
\* again, whose error, if any, is returned as it is.
InsertWithEvict(c, block_id, buf) ==
    LET AfterRetry(e, w2) ==
          IF w2.err # "Ok"
          THEN [c |-> [device |-> e.disk, cache |-> e.lru], err |-> w2.err]
          ELSE [c |-> [device |-> e.disk, cache |-> w2.lru], err |-> "Ok"]
        AfterEvict(e) ==
          IF e.err # "Ok" THEN [c |-> [device |-> e.disk, cache |-> e.lru], err |-> e.err]
          ELSE AfterRetry(e, write_cache(e.lru, block_id, buf))
        AfterWrite(w1) ==
          IF w1.err = "Ok" THEN [c |-> [c EXCEPT !.cache = w1.lru], err |-> "Ok"]
          ELSE IF w1.err = "CacheEvict" THEN AfterEvict(evict(c.cache, c.device, w1.victim))
          ELSE [c |-> c, err |-> w1.err]
    IN AfterWrite(write_cache(c.cache, block_id, buf))

\* Cached::read_block; data is what the call leaves in buf when it returns Ok.
cached_read_block(c, block_id) ==
    LET AfterInsert(x, buf) == [c |-> x.c, err |-> x.err, data |-> buf]
        AfterDevice(d) ==
          IF d.err # "Ok" THEN [c |-> c, err |-> d.err, data |-> 0]
          ELSE AfterInsert(InsertWithEvict(c, block_id, d.buf), d.buf)
        AfterCache(r) ==
          IF r.err = "Ok" THEN [c |-> [c EXCEPT !.cache = r.lru], err |-> "Ok", data |-> r.buf]
          ELSE IF r.err = "CacheMiss" THEN AfterDevice(ram_read_block(c.device, block_id))
          ELSE [c |-> c, err |-> r.err, data |-> 0]
    IN AfterCache(read_cache(c.cache, block_id))

\* A write_block that also writes the block to the device.
cached_write_through(c, block_id, buf) ==
    LET After(x) == [c |-> [x.c EXCEPT !.device = ram_write_block(@, block_id, buf).disk],
                     err |-> x.err, data |-> 0]
    IN After(InsertWithEvict(c, block_id, buf))

\* Cached::write_block
cached_write_block(c, block_id, buf) ==
    LET After(x) == [c |-> x.c, err |-> x.err, data |-> 0]
    IN After(InsertWithEvict(c, block_id, buf))

\* Cached::flush
cached_flush(c) ==
    LET After(f) == [c |-> [device |-> f.disk, cache |-> f.lru], err |-> f.err, data |-> 0]
    IN After(cache_flush(c.cache, c.device))

(***************************************************************************)
(* The state machine: one FileSystem instance over one RamDisk, driven by  *)
(* a caller that invokes the facade methods one at a time.                 *)
(***************************************************************************)
VARIABLES device, superblock, ret, nops, mark, cached, cret, written

vars == <<device, superblock, ret, nops, mark, cached, cret, written>>

\* Inputs of the caller.
PathA == [abs |-> TRUE, comps |-> <<NameA>>]
PathB == [abs |-> TRUE, comps |-> <<NameB>>]
PathAA == [abs |-> TRUE, comps |-> <<NameA, NameA>>]
PathAB == [abs |-> TRUE, comps |-> <<NameA, NameB>>]
Paths == {PathA, PathB, PathAA}
AllPaths == {PathA, PathB, PathAA, PathAB}
CreatTypes == {"Regular", "Directory"}
RemoveTypes == {"Regular", "Directory", "Symlink"}

World(oc) == [dev |-> device, sb |-> superblock, af |-> FALSE, oc |-> oc, log |-> << >>]

\* ret: the last call, its arguments and its result.
Call(op, path, ftype, off, buf, target) ==
    [op |-> op, path |-> path, ftype |-> ftype, off |-> off, buf |-> buf, target |-> target]

\* mark is a history variable: the path of the last successful creat and
\* the free counts before it, kept while only fwrite calls to that path
\* follow.  NoMark when there is no such creat, or when the creat took more
\* blocks than a new directory's own block (the parent grew).
NoMark == [path |-> NoPath, free_inodes |-> 0, free_blocks |-> 0]

NextMark(r, call) ==
    IF call.op = "creat" /\ r.err = "Ok"
    THEN IF superblock.free_blocks - r.w.sb.free_blocks
              > (IF call.ftype = "Directory" THEN 1 ELSE 0)
         THEN NoMark
         ELSE [path |-> call.path, free_inodes |-> superblock.free_inodes,
               free_blocks |-> superblock.free_blocks]
    ELSE IF call.op = "fwrite" /\ call.path = mark.path THEN mark
    ELSE NoMark

Commit(r, call) ==
    /\ device' = r.w.dev
    /\ mark' = NextMark(r, call)
    /\ superblock' = r.w.sb
    /\ nops' = nops + 1
    /\ ret' = [op |-> call.op, path |-> call.path, ftype |-> call.ftype, off |-> call.off,
               buf |-> call.buf, target |-> call.target,
               err |-> r.err, v |-> r.v, data |-> r.data, af |-> r.w.af]
    /\ UNCHANGED <<cached, cret, written>>

\* A panic ends the process that owns the instance.
Alive == ret.err # "Panic"

\* The cache shim of the cached.rs tests is a separate object: a Cached over
\* its own RamDisk of CacheBlocks blocks.  cret is its last call and result,
\* written the history of the bytes each block id was last given by a
\* write_block that returned Ok (NeverWritten when there was none).
CacheBlocks == 2
MaxCapacity == 2
NeverWritten == 0 - 1
BlockIds == 0..CacheBlocks
CachedNew(disk, capacity) == [device |-> disk, cache |-> LruCacheNew(capacity)]
NoCacheCall == [op |-> "new", id |-> 0, buf |-> 0, err |-> "Ok", data |-> 0]

CacheIdle ==
    /\ cached = CachedNew([b \in 1..CacheBlocks |-> 0], 1)
    /\ cret = NoCacheCall
    /\ written = [b \in BlockIds |-> NeverWritten]

Init ==
    LET f == format(RamDisk, NumBlocks, NumInodes)
    IN /\ device = f.w.dev
       /\ superblock = f.w.sb
       /\ nops = 0
       /\ mark = NoMark
       /\ ret = [op |-> "format", path |-> RootPath, ftype |-> "", off |-> 0, buf |-> << >>,
                 target |-> RootPath, err |-> f.err, v |-> 0, data |-> << >>, af |-> f.w.af]
       /\ CacheIdle

Creat(path, file_type) ==
    /\ Alive
    /\ Commit(creat(World(FALSE), path, file_type, "RW"),
              Call("creat", path, file_type, 0, << >>, RootPath))

Remove(path, ftype) ==
    /\ Alive
    /\ \E oc \in BOOLEAN :
         Commit(remove(World(oc), path, ftype), Call("remove", path, ftype, 0, << >>, RootPath))

Fwrite(path, offset, buf) ==
    /\ Alive
    /\ Commit(fs_fwrite(World(FALSE), path, offset, buf),
              Call("fwrite", path, "", offset, buf, RootPath))

Fread(path, offset, buf_len) ==
    /\ Alive
    /\ \E oc \in BOOLEAN :
         Commit(fs_fread(World(oc), path, offset, buf_len),
                Call("fread", path, "", offset, [k \in 1..buf_len |-> 0], RootPath))

Link(target, link_name) ==
    /\ Alive
    /\ Commit(link(World(FALSE), target, link_name),
              Call("link", link_name, "", 0, << >>, target))

Symlink(target, link_name) ==
    /\ Alive
    /\ Commit(symlink(World(FALSE), target, link_name),
              Call("symlink", link_name, "", 0, << >>, target))

Lookup(path) ==
    /\ Alive
    /\ Commit(lookup(World(FALSE), path), Call("lookup", path, "", 0, << >>, RootPath))

\* creat of a Regular file with the given mode.
CreatMode(path, mode) ==
    /\ Alive
    /\ Commit(creat(World(FALSE), path, "Regular", mode),
              Call("creat", path, "Regular", 0, << >>, RootPath))

ReadLink(path) ==
    /\ Alive
    /\ Commit(fs_read_link(World(FALSE), path), Call("read_link", path, "", 0, << >>, RootPath))

ReadDir(path) ==
    /\ Alive
    /\ Commit(fs_read_dir(World(FALSE), path), Call("read_dir", path, "", 0, << >>, RootPath))

\* mount of the device; ftype records how its read of block 0 ends.
MountAt(fault) ==
    /\ Alive
    /\ Commit(mount_at(World(FALSE), fault), Call("mount", RootPath, fault, 0, << >>, RootPath))

\* A call of SuperBlock::new in either build; buf holds its two arguments,
\* data the superblock returned.
NewSuperBlock(num_blocks, num_inodes) ==
    LET After(r, oc) ==
          ret' = [op |-> "SuperBlock::new", path |-> RootPath, ftype |-> "", off |-> 0,
                  buf |-> <<num_blocks, num_inodes>>, target |-> RootPath,
                  err |-> IF oc /\ r.ovf THEN "Panic" ELSE r.err, v |-> 0,
                  data |-> IF (oc /\ r.ovf) \/ r.err # "Ok" THEN << >> ELSE <<r.sb>>,
                  af |-> FALSE]
    IN /\ Alive
       /\ \E oc \in BOOLEAN : After(SuperBlockNew(num_blocks, num_inodes), oc)
       /\ nops' = nops + 1
       /\ UNCHANGED <<device, superblock, mark, cached, cret, written>>

Unmount ==
    /\ Alive
    /\ Commit(unmount(World(FALSE)), Call("unmount", RootPath, "", 0, << >>, RootPath))

Mount ==
    /\ Alive
    /\ Commit(mount(World(FALSE)), Call("mount", RootPath, "", 0, << >>, RootPath))

\* Number of calls the caller makes in a run of each specification.
MaxOpsCR == 6

\* creat and remove only.
NextCR ==
    /\ nops < MaxOpsCR
    /\ \/ \E p \in Paths, t \in CreatTypes : Creat(p, t)
       \/ \E p \in Paths, t \in RemoveTypes : Remove(p, t)

SpecCR == Init /\ [][NextCR]_vars

MaxOpsNS == 5
Paths2 == {PathA, PathB}

\* The name space operations: creat, symlink, link and remove.
NextNS ==
    /\ nops < MaxOpsNS
    /\ \/ \E p \in Paths2, t \in CreatTypes : Creat(p, t)
       \/ \E t \in Paths2, p \in Paths2 : Symlink(t, p)
       \/ \E t \in Paths2, p \in Paths2 : Link(t, p)
       \/ \E p \in Paths2, t \in RemoveTypes : Remove(p, t)

SpecNS == Init /\ [][NextNS]_vars

MaxOpsSL == 5

\* creat, symlink and remove, with link names inside a subdirectory.
NextSL ==
    /\ nops < MaxOpsSL
    /\ \/ \E p \in Paths, t \in CreatTypes : Creat(p, t)
       \/ \E t \in Paths2, p \in Paths : Symlink(t, p)
       \/ \E p \in Paths, t \in RemoveTypes : Remove(p, t)

SpecSL == Init /\ [][NextSL]_vars

\* Offsets, buffers and read lengths of the callers of fwrite and fread: the
\* start of the file, the last byte of block 0, the start of block 1 and
\* the start of the first block reached through the indirect block.
Offsets == {0, BLOCK_SIZE - 1, BLOCK_SIZE, NUM_DIRECT_PTRS * BLOCK_SIZE}
Bufs == {<<5>>, <<6, 7>>}
ReadLens == {1, 2}

MaxOpsRW == 4

\* One regular file /a that is created, written, read and removed.
NextRW ==
    /\ nops < MaxOpsRW
    /\ \/ Creat(PathA, "Regular")
       \/ \E o \in Offsets, b \in Bufs : Fwrite(PathA, o, b)
       \/ \E o \in Offsets, n \in ReadLens : Fread(PathA, o, n)
       \/ Remove(PathA, "Regular")

SpecRW == Init /\ [][NextRW]_vars

MaxOpsFS == 5

\* creat, fwrite, link, symlink and remove.
NextFS ==
    /\ nops < MaxOpsFS
    /\ \/ \E p \in Paths2, t \in CreatTypes : Creat(p, t)
       \/ \E o \in Offsets : Fwrite(PathA, o, <<5>>)
       \/ Link(PathA, PathB)
       \/ Symlink(PathA, PathB)
       \/ \E p \in Paths2, t \in RemoveTypes : Remove(p, t)

SpecFS == Init /\ [][NextFS]_vars

MaxOpsLS == 6

\* A regular file /b with a hard link /a/a and a symbolic link /a/b to it.
NextLS ==
    /\ nops < MaxOpsLS
    /\ \/ Creat(PathA, "Directory")
       \/ Creat(PathB, "Regular")
       \/ Fwrite(PathB, 0, <<5>>)
       \/ Link(PathB, PathAA)
       \/ Symlink(PathB, PathAB)
       \/ \E p \in {PathB, PathAA, PathAB}, t \in {"Regular", "Symlink"} : Remove(p, t)

SpecLS == Init /\ [][NextLS]_vars

MaxOpsMT == 5

\* creat, fwrite, link, symlink and remove, with unmount and mount.
NextMT ==
    /\ nops < MaxOpsMT
    /\ \/ \E p \in Paths2, t \in CreatTypes : Creat(p, t)
       \/ \E o \in {0, NUM_DIRECT_PTRS * BLOCK_SIZE} : Fwrite(PathA, o, <<5>>)
       \/ Link(PathA, PathB)
       \/ Symlink(PathA, PathB)
       \/ \E p \in Paths2, t \in RemoveTypes : Remove(p, t)
       \/ Unmount
       \/ Mount

SpecMT == Init /\ [][NextMT]_vars

MaxOpsWR == 6

\* A regular file /a beside a directory /b: creat, fwrite and remove.
NextWR ==
    /\ nops < MaxOpsWR
    /\ \/ Creat(PathA, "Regular")
       \/ Creat(PathB, "Directory")
       \/ \E o \in {0, BLOCK_SIZE, NUM_DIRECT_PTRS * BLOCK_SIZE} : Fwrite(PathA, o, <<5>>)
       \/ Remove(PathA, "Regular")
       \/ Remove(PathB, "Directory")

SpecWR == Init /\ [][NextWR]_vars

MaxOpsSY == 4
RelA == [abs |-> FALSE, comps |-> <<NameA>>]
RelB == [abs |-> FALSE, comps |-> <<NameB>>]
SymTargets == {PathA, PathB, RelA, RelB}

\* creat, symlink with absolute and relative targets, and lookup.
NextSY ==
    /\ nops < MaxOpsSY
    /\ \/ \E p \in Paths : Creat(p, "Directory")
       \/ \E t \in SymTargets, p \in AllPaths : Symlink(t, p)
       \/ \E p \in AllPaths : Lookup(p)

SpecSY == Init /\ [][NextSY]_vars

MaxOpsSW == 5
PathBUpBA == [abs |-> TRUE, comps |-> <<NameB, DOTDOT_NAME, NameB, NameA>>]
PathADotA == [abs |-> TRUE, comps |-> <<NameA, DOT_NAME, NameA>>]
PathAUpAA == [abs |-> TRUE, comps |-> <<NameA, DOTDOT_NAME, NameA, NameA>>]
PathBA == [abs |-> TRUE, comps |-> <<NameB, NameA>>]
\* <<target, link_path>> pairs: /b -> /a, /a/b -> /b/../b/a, /a/b -> /a/./a,
\* /b -> /a/../a/a, /a/b -> /b/a.
LinkPairs == {<<PathA, PathB>>, <<PathBUpBA, PathAB>>, <<PathADotA, PathAB>>,
              <<PathAUpAA, PathB>>, <<PathBA, PathAB>>}
LinkPaths == {PathB, PathAB}

\* A directory /a, a file /a/a, symlinks with absolute targets, and lookup
\* and fwrite through the symlinks.
NextSW ==
    /\ nops < MaxOpsSW
    /\ \/ Creat(PathA, "Directory")
       \/ Creat(PathAA, "Regular")
       \/ \E tl \in LinkPairs : Symlink(tl[1], tl[2])
       \/ \E p \in LinkPaths : Lookup(p)
       \/ \E p \in LinkPaths, b \in Bufs : Fwrite(p, 0, b)

SpecSW == Init /\ [][NextSW]_vars

MaxOpsRL == 4
Contents == {<<5>>}

\* Files with content, directories, symlinks to them, and remove.
NextRL ==
    /\ nops < MaxOpsRL
    /\ \/ \E p \in Paths2, t \in CreatTypes : Creat(p, t)
       \/ \E p \in Paths2, b \in Contents : Fwrite(p, 0, b)
       \/ \E t \in Paths2, p \in AllPaths : Symlink(t, p)
       \/ \E p \in AllPaths, t \in {"Symlink", "Regular"} : Remove(p, t)

SpecRL == Init /\ [][NextRL]_vars

MaxOpsCA == 5
CacheVals == {1, 2}
\* The disk the shim is put over: new (zeroed), or holding bytes already.
DiskImages == {[b \in 1..CacheBlocks |-> 0], [b \in 1..CacheBlocks |-> 10 + b]}

InitCA ==
    LET f == format(RamDisk, NumBlocks, NumInodes)
    IN /\ \E disk \in DiskImages, capacity \in 1..MaxCapacity :
             cached = CachedNew(disk, capacity)
       /\ cret = NoCacheCall
       /\ written = [b \in BlockIds |-> NeverWritten]
       /\ nops = 0
       /\ device = f.w.dev
       /\ superblock = f.w.sb
       /\ mark = NoMark
       /\ ret = [op |-> "format", path |-> RootPath, ftype |-> "", off |-> 0, buf |-> << >>,
                 target |-> RootPath, err |-> f.err, v |-> 0, data |-> << >>, af |-> f.w.af]

CacheCommit(r, op, id, buf) ==
    /\ cached' = r.c
    /\ cret' = [op |-> op, id |-> id, buf |-> buf, err |-> r.err, data |-> r.data]
    /\ written' = IF op = "write_block" /\ r.err = "Ok"
                  THEN [written EXCEPT ![id] = buf] ELSE written
    /\ nops' = nops + 1
    /\ UNCHANGED <<device, superblock, ret, mark>>

ReadBlock(id) == CacheCommit(cached_read_block(cached, id), "read_block", id, 0)

WriteBlock(id, buf) == CacheCommit(cached_write_block(cached, id, buf), "write_block", id, buf)

Flush == CacheCommit(cached_flush(cached), "flush", 0, 0)

\* Calls on the shim, one at a time; block id CacheBlocks is past the disk.
NextCA ==
    /\ nops < MaxOpsCA
    /\ \/ \E id \in BlockIds : ReadBlock(id)
       \/ \E id \in BlockIds, buf \in CacheVals : WriteBlock(id, buf)
       \/ Flush

SpecCA == InitCA /\ [][NextCA]_vars

MaxOpsPM == 3
Modes == {"None", "Read", "Write", "Execute", "RW", "RE", "RWE"}

\* Regular files of every mode, read and written at offset 0.
NextPM ==
    /\ nops < MaxOpsPM
    /\ \/ \E p \in Paths2, m \in Modes : CreatMode(p, m)
       \/ \E p \in Paths2 : Fwrite(p, 0, <<5>>)
       \/ \E p \in Paths2 : Fread(p, 0, 1)

SpecPM == Init /\ [][NextPM]_vars

MaxOpsDF == 4

\* A device whose data region is smaller than its inode table: two blocks
\* fewer than the RamDisk holds, so that the data blocks run out first.
SmallBlocks == NumBlocks - 2

InitDF ==
    LET f == format(RamDisk, SmallBlocks, NumInodes)
    IN /\ device = f.w.dev
       /\ superblock = f.w.sb
       /\ nops = 0
       /\ mark = NoMark
       /\ ret = [op |-> "format", path |-> RootPath, ftype |-> "", off |-> 0, buf |-> << >>,
                 target |-> RootPath, err |-> f.err, v |-> 0, data |-> << >>, af |-> f.w.af]
       /\ CacheIdle

\* creat, link, symlink and remove on the small device.
NextDF ==
    /\ nops < MaxOpsDF
    /\ \/ \E p \in AllPaths, t \in CreatTypes : Creat(p, t)
       \/ \E t \in Paths2, p \in Paths2 : Link(t, p)
       \/ \E t \in Paths2, p \in Paths2 : Symlink(t, p)
       \/ \E p \in Paths, t \in RemoveTypes : Remove(p, t)

SpecDF == InitDF /\ [][NextDF]_vars

MaxOpsRD == 4

\* creat and remove in the root and in /a, and read_dir of both.
NextRD ==
    /\ nops < MaxOpsRD
    /\ \/ \E p \in AllPaths, t \in CreatTypes : Creat(p, t)
       \/ \E p \in AllPaths, t \in CreatTypes : Remove(p, t)
       \/ \E p \in {RootPath, PathA} : ReadDir(p)

SpecRD == Init /\ [][NextRD]_vars

MaxOpsSB == 2
MaxGeomBlocks == 16
MaxGeomInodes == 9

\* Arguments of SuperBlock::new: the small geometries, zero included, and
\* values at the top of the u32 range.
GeomBlocks == (0..MaxGeomBlocks) \cup {U32_MAX - 7, U32_MAX - 6, U32_MAX}
GeomInodes == (0..MaxGeomInodes) \cup {U32_MAX - 3, U32_MAX}

NextSB ==
    /\ nops < MaxOpsSB
    /\ \E nb \in GeomBlocks, ni \in GeomInodes : NewSuperBlock(nb, ni)

SpecSB == Init /\ [][NextSB]_vars

MaxOpsMN == 4

\* No instance: the superblock of a process that has not mounted yet.
NoInstance == SuperBlockOfWords(ZeroWords)

Formatted == format(RamDisk, NumBlocks, NumInodes).w.dev

\* The devices handed to mount: a formatted one, one never formatted, and
\* formatted ones whose block 0 holds another magic or another block size.
MountImages ==
    {Formatted, RamDisk, [Formatted EXCEPT !.sb[1] = MAGIC - 1],
     [Formatted EXCEPT !.sb[3] = 2 * BLOCK_SIZE]}

InitMN ==
    /\ device \in MountImages
    /\ superblock = NoInstance
    /\ nops = 0
    /\ mark = NoMark
    /\ ret = [op |-> "open", path |-> RootPath, ftype |-> "", off |-> 0, buf |-> << >>,
              target |-> RootPath, err |-> "Ok", v |-> 0, data |-> << >>, af |-> FALSE]
    /\ CacheIdle

\* There is an instance once a mount has succeeded.
Mounted == superblock # NoInstance

\* mount of each device, and creat and remove on the mounted instance.
NextMN ==
    /\ nops < MaxOpsMN
    /\ \/ \E f \in ReadFaults : MountAt(f)
       \/ Mounted /\ \E p \in Paths2, t \in CreatTypes : Creat(p, t)
       \/ Mounted /\ \E p \in Paths2, t \in CreatTypes : Remove(p, t)

SpecMN == InitMN /\ [][NextMN]_vars

MaxOpsDD == 4

\* Paths with '.' and '..': /a/.., /a/b/.., /a/b/../.., /a/b/../../a,
\* /a/../a, /a/b/../b, /a/../b, /../.././.., /a/b/../../b.
DotDotPaths ==
    {[abs |-> TRUE, comps |-> c] :
       c \in {<<NameA, DOTDOT_NAME>>, <<NameA, NameB, DOTDOT_NAME>>,
              <<NameA, NameB, DOTDOT_NAME, DOTDOT_NAME>>,
              <<NameA, NameB, DOTDOT_NAME, DOTDOT_NAME, NameA>>,
              <<NameA, DOTDOT_NAME, NameA>>, <<NameA, NameB, DOTDOT_NAME, NameB>>,
              <<NameA, DOTDOT_NAME, NameB>>,
              <<DOTDOT_NAME, DOTDOT_NAME, DOT_NAME, DOTDOT_NAME>>,
              <<NameA, NameB, DOTDOT_NAME, DOTDOT_NAME, NameB>>}}

\* creat of files and directories, and lookup of the dotted paths.
NextDD ==
    /\ nops < MaxOpsDD
    /\ \/ \E p \in AllPaths, t \in CreatTypes : Creat(p, t)
       \/ \E p \in DotDotPaths : Lookup(p)

SpecDD == Init /\ [][NextDD]_vars

MaxOpsHL == 5

\* Regular files /a and /b, hard links between them and into the directory
\* /a, writes through each name, and remove.
NextHL ==
    /\ nops < MaxOpsHL
    /\ \/ \E p \in Paths2, t \in CreatTypes : Creat(p, t)
       \/ \E t \in Paths2, l \in AllPaths : Link(t, l)
       \/ \E p \in AllPaths, b \in Bufs : Fwrite(p, 0, b)
       \/ \E p \in Paths2 : Remove(p, "Regular")

SpecHL == Init /\ [][NextHL]_vars

MaxOpsZF == 5

\* Offset and buffer of a write into the start of the first block, of one
\* into its last byte, and of one into the second block.
ZeroFillWrites == {<<0, <<6, 7>>>>, <<BLOCK_SIZE - 1, <<5>>>>, <<BLOCK_SIZE, <<5>>>>}

\* Files /a and /b written, removed and created again, so that blocks and
\* inodes of removed files are taken again.
NextZF ==
    /\ nops < MaxOpsZF
    /\ \/ \E p \in Paths2 : Creat(p, "Regular")
       \/ \E p \in Paths2, ob \in ZeroFillWrites : Fwrite(p, ob[1], ob[2])
       \/ \E p \in Paths2 : Remove(p, "Regular")

SpecZF == Init /\ [][NextZF]_vars

MaxOpsSX == 5

\* <<target, link_path>> pairs of a chain /b -> /a/a -> /a/b -> /a, of the
\* shorter chain /b -> /a, and of the cycle /a/a -> /b.
ChainPairs == {<<PathAA, PathB>>, <<PathAB, PathAA>>, <<PathA, PathAB>>,
               <<PathA, PathB>>, <<PathB, PathAA>>}
ChainPaths == {PathB, PathAA, PathAB}

\* A directory /a, symlinks one to the next, and lookup of each.
NextSX ==
    /\ nops < MaxOpsSX
    /\ \/ Creat(PathA, "Directory")
       \/ \E tl \in ChainPairs : Symlink(tl[1], tl[2])
       \/ \E p \in ChainPaths : Lookup(p)

SpecSX == Init /\ [][NextSX]_vars

MaxOpsRO == 4

\* Files, directories and symlinks at /a and /b, a write, and the three
\* read-only calls on paths that exist and on paths that do not.
NextRO ==
    /\ nops < MaxOpsRO
    /\ \/ \E p \in Paths2, t \in CreatTypes : Creat(p, t)
       \/ \E t \in Paths2, p \in Paths2 : Symlink(t, p)
       \/ Fwrite(PathA, BLOCK_SIZE, <<5>>)
       \/ \E p \in AllPaths : Lookup(p)
       \/ \E p \in {RootPath, PathA, PathB} : ReadDir(p)
       \/ \E p \in AllPaths : ReadLink(p)

SpecRO == Init /\ [][NextRO]_vars

MaxOpsFM == 3

\* Geometries handed to format: the device's size and one block or inode
\* fewer.
FormatBlocks == {NumBlocks - 1, NumBlocks}
FormatInodes == {NumInodes - 1, NumInodes}

InitFM ==
    \E nb \in FormatBlocks, ni \in FormatInodes :
       /\ device = format(RamDisk, nb, ni).w.dev
       /\ superblock = format(RamDisk, nb, ni).w.sb
       /\ nops = 0
       /\ mark = NoMark
       /\ ret = [op |-> "format", path |-> RootPath, ftype |-> "", off |-> 0, buf |-> << >>,
                 target |-> RootPath, err |-> format(RamDisk, nb, ni).err, v |-> 0,
                 data |-> << >>, af |-> format(RamDisk, nb, ni).w.af]
       /\ CacheIdle

\* format of each geometry, then creat and remove.
NextFM ==
    /\ nops < MaxOpsFM
    /\ \/ \E p \in Paths2, t \in CreatTypes : Creat(p, t)
       \/ \E p \in Paths2, t \in RemoveTypes : Remove(p, t)

SpecFM == InitFM /\ [][NextFM]_vars

(***************************************************************************)
(* Properties                                                              *)
(***************************************************************************)
\* Number of set bits among the first num_inodes bits of the inode bitmap.
InodeBitsSet == Cardinality({i \in 0..(superblock.num_inodes - 1) : i \in device.ibm})

\* C1: after format and any sequence of creat and remove calls, succeeding
\* or failing, the number of set bits of the inode bitmap within
\* 0..num_inodes-1 equals num_inodes - superblock.free_inodes.
C1_InodeBitmapMatchesFreeInodes ==
    InodeBitsSet = superblock.num_inodes - superblock.free_inodes

\* C1 witness: a remove has freed an inode while another created inode is
\* still allocated.
C1_Witness ==
    /\ ret.op = "remove" /\ ret.err = "Ok"
    /\ superblock.free_inodes = superblock.num_inodes - 3
    /\ InodeBitsSet = 3

\* State functions used by the properties.
Lk(path) == lookup(World(FALSE), path)

\* The block ids an inode points to: direct pointers, indirect pointer and
\* the slots of the indirect block.
DirectIds(inode) == {inode.direct[k] : k \in 1..NUM_DIRECT_PTRS} \ {0}

SlotIds(inode) ==
    IF inode.indirect = 0 THEN {}
    ELSE {PtrAt(device.blk[inode.indirect], k) : k \in 0..(PTRS_PER_BLOCK - 1)} \ {0}

\* The names of the entries held in the data blocks of a directory inode.
DirNames(inode) ==
    {device.blk[b][j * DIR_ENTRY_SIZE + 1] :
        <<b, j>> \in {bj \in (DirectIds(inode) \cup SlotIds(inode)) \X (0..(NUM_ENTRY_PER_BLOCK - 1)) :
                        device.blk[bj[1]][bj[2] * DIR_ENTRY_SIZE] # 0}}

LowestClearInode ==
    CHOOSE i \in 0..superblock.num_inodes :
        /\ i \notin device.ibm
        /\ \A k \in 0..(i - 1) : k \in device.ibm

\* The inodes whose bitmap bit is set.
AllocatedInodes == {i \in 0..(superblock.num_inodes - 1) : i \in device.ibm}

\* The references to block b: <<i, k>> for direct pointer k of inode i,
\* <<i, 0>> for its indirect pointer, <<i, -k>> for slot k of its indirect
\* block.
BlockRefs(b) ==
    {ik \in AllocatedInodes \X (1..NUM_DIRECT_PTRS) : device.itab[ik[1]].direct[ik[2]] = b}
    \cup {ik \in AllocatedInodes \X {0} : device.itab[ik[1]].indirect = b}
    \cup {ik \in AllocatedInodes \X ((0 - PTRS_PER_BLOCK)..(0 - 1)) :
             /\ device.itab[ik[1]].indirect # 0
             /\ PtrAt(device.blk[device.itab[ik[1]].indirect], (0 - ik[2]) - 1) = b}

\* C2: in every state reached by creat, fwrite, link, symlink and remove,
\* failing calls included, every block a pointer of an allocated inode
\* names has its data bitmap bit set, and every set data bitmap bit is
\* named by exactly one pointer.
C2_BlocksMatchBitmap ==
    \A b \in superblock.data_start..(superblock.num_blocks - 1) :
        IF (b - superblock.data_start) \in device.dbm
        THEN Cardinality(BlockRefs(b)) = 1
        ELSE BlockRefs(b) = {}

MaxFileSize == (NUM_DIRECT_PTRS + PTRS_PER_BLOCK) * BLOCK_SIZE

\* fread of the same range in the state after the call, for either build.
ReadBack(oc) ==
    fs_fread([dev |-> device', sb |-> superblock', af |-> FALSE, oc |-> oc, log |-> << >>],
             ret'.path, ret'.off, Len(ret'.buf))

\* C4: fwrite to a Regular read-write file, at any offset and with any
\* non-empty buffer that fits the file size limit and the free space,
\* returns len(buf), and fread of the same range then returns len(buf) and
\* the bytes of buf.
C4_WriteThenRead ==
    [][(/\ ret'.op = "fwrite" /\ ret'.buf # << >>
        /\ Lk(ret'.path).err = "Ok" /\ Lk(ret'.path).data = <<"Regular">>
        /\ ret'.off + Len(ret'.buf) <= MaxFileSize
        /\ superblock.free_blocks >= NUM_DIRECT_PTRS + 1)
       => /\ ret'.err = "Ok" /\ ret'.v = Len(ret'.buf)
          /\ \A oc \in BOOLEAN :
                /\ ReadBack(oc).err = "Ok"
                /\ ReadBack(oc).v = Len(ret'.buf)
                /\ ReadBack(oc).data = ret'.buf]_vars

\* C5: fread on a Regular file, at an offset within its size, changes
\* neither free_blocks, nor the data bitmap, nor the file's inode, and a
\* read that starts in an unallocated block returns 0 bytes.
C5_ReadChangesNothing ==
    [][(/\ ret'.op = "fread"
        /\ Lk(ret'.path).err = "Ok" /\ Lk(ret'.path).data = <<"Regular">>
        /\ ret'.off <= device.itab[Lk(ret'.path).v].size)
       => /\ superblock'.free_blocks = superblock.free_blocks
          /\ device'.dbm = device.dbm
          /\ device'.itab[Lk(ret'.path).v] = device.itab[Lk(ret'.path).v]
          /\ (bmap(World(FALSE), device.itab[Lk(ret'.path).v],
                   (ret'.off \div BLOCK_SIZE) * BLOCK_SIZE, FALSE).err = "OutOfBounds"
              => ret'.err = "Ok" /\ ret'.v = 0)]_vars

\* lookup and a read of the first n bytes, on a given device and superblock.
LkIn(dev, sb, path) == lookup([dev |-> dev, sb |-> sb, af |-> FALSE, oc |-> FALSE, log |-> << >>], path)

ReadIn(dev, sb, path, n) ==
    fs_fread([dev |-> dev, sb |-> sb, af |-> FALSE, oc |-> FALSE, log |-> << >>], path, 0, n).data

\* The blocks an inode holds: data blocks and the indirect block.
BlocksOf(inode) == DirectIds(inode) \cup SlotIds(inode) \cup ({inode.indirect} \ {0})

\* The inode a path's own directory entry names (a final symlink is not
\* followed).
EntryOf(path) == resolve_without_last(World(FALSE), path)

\* C3: when the entries of two paths name the same Regular inode, remove of
\* one of them leaves the inode allocated with links_cnt 1, the other path
\* resolves to the same inode and reads the same bytes as before; when the
\* inode has links_cnt 1, remove frees the inode and its blocks.
C3_HardLinkRemove ==
    [][(/\ ret'.op = "remove" /\ ret'.ftype = "Regular"
        /\ EntryOf(ret'.path).err = "Ok"
        /\ EntryOf(ret'.path).v \in device.ibm
        /\ device.itab[EntryOf(ret'.path).v].ftype = "Regular"
        /\ device.itab[EntryOf(ret'.path).v].links_cnt >= 1)
       => /\ ret'.err = "Ok"
          /\ \A q \in AllPaths \ {ret'.path} :
                (EntryOf(q).err = "Ok" /\ EntryOf(q).v = EntryOf(ret'.path).v)
                => /\ EntryOf(q).v \in device'.ibm
                   /\ device'.itab[EntryOf(q).v].links_cnt = 1
                   /\ LkIn(device', superblock', q).err = "Ok"
                   /\ LkIn(device', superblock', q).v = EntryOf(q).v
                   /\ LkIn(device', superblock', q).data = <<"Regular">>
                   /\ ReadIn(device', superblock', q, device.itab[EntryOf(q).v].size)
                        = ReadIn(device, superblock, q, device.itab[EntryOf(q).v].size)
          /\ device.itab[EntryOf(ret'.path).v].links_cnt = 1
                => /\ EntryOf(ret'.path).v \notin device'.ibm
                   /\ \A b \in BlocksOf(device.itab[EntryOf(ret'.path).v]) :
                         (b - superblock.data_start) \notin device'.dbm]_vars

\* The parent directory of path holds an entry with the last name of path.
NameExistsIn(p) == p.err = "Ok" /\ dir_lookup(World(FALSE), p.ino, p.name).err = "Ok"

NameExists(path) == NameExistsIn(ParentOf(World(FALSE), path))

ParentId(path) == ParentOf(World(FALSE), path).ino.id

\* C7: creat (Regular or Directory) or symlink onto a name that exists in
\* the parent directory fails with AlreadyExists and leaves free_inodes,
\* the inode bitmap, the parent's inode and the data blocks unchanged.
C7_ExistingName ==
    [][(ret'.op \in {"creat", "symlink"} /\ NameExists(ret'.path))
       => /\ ret'.err = "AlreadyExists"
          /\ superblock'.free_inodes = superblock.free_inodes
          /\ device'.ibm = device.ibm
          /\ device'.itab[ParentId(ret'.path)] = device.itab[ParentId(ret'.path)]
          /\ device'.blk = device.blk]_vars

\* C8: remove(path, Directory) on a directory holding any entry other than
\* '.' and '..' fails with DirNotEmpty and changes nothing on the device or
\* in the superblock; on a directory holding only '.' and '..' the call
\* succeeds and frees the directory's inode.
C8_RemoveDirectory ==
    [][(/\ ret'.op = "remove" /\ ret'.ftype = "Directory"
        /\ Lk(ret'.path).err = "Ok" /\ Lk(ret'.path).data = <<"Directory">>)
       => IF DirNames(device.itab[Lk(ret'.path).v]) \ {DOT_NAME, DOTDOT_NAME} # {}
          THEN /\ ret'.err = "DirNotEmpty"
               /\ device' = device /\ superblock' = superblock
          ELSE /\ ret'.err = "Ok"
               /\ Lk(ret'.path).v \notin device'.ibm
               /\ superblock'.free_inodes = superblock.free_inodes + 1]_vars

\* What the paths resolve to and read back on a given device and superblock.
View(dev, sb) ==
    [p \in AllPaths |-> <<LkIn(dev, sb, p).err, LkIn(dev, sb, p).v, LkIn(dev, sb, p).data,
                          ReadIn(dev, sb, p, MaxFileSize)>>]

\* C6: unmount succeeds and keeps the instance's superblock and what every
\* path resolves to and reads; mount after unmount yields a superblock
\* equal field by field to the one before, and every path resolves to the
\* same inode id and file type and reads the same data.
C6_UnmountMount ==
    [][/\ ret'.op = "unmount"
          => /\ ret'.err = "Ok" /\ superblock' = superblock
             /\ View(device', superblock') = View(device, superblock)
       /\ (ret'.op = "mount" /\ ret.op = "unmount")
          => /\ ret'.err = "Ok" /\ superblock' = superblock
             /\ View(device', superblock') = View(device, superblock)]_vars

\* C6 witness: a file was created and written, a second inode allocated,
\* and the instance was unmounted and mounted again.
C6_Witness ==
    /\ ret.op = "mount" /\ ret.err = "Ok" /\ nops = MaxOpsMT
    /\ Lk(PathA).err = "Ok" /\ Lk(PathA).data = <<"Regular">>
    /\ ReadIn(device, superblock, PathA, 1) = <<5>>
    /\ superblock.free_inodes # superblock.free_blocks

\* C9: a successful remove of the path of the last successful creat, with
\* only fwrite calls to that path in between, returns free_inodes and
\* free_blocks to their values before the creat.
C9_CreatRemoveRestores ==
    [][(ret'.op = "remove" /\ ret'.err = "Ok" /\ ret'.path = mark.path)
       => /\ superblock'.free_inodes = mark.free_inodes
          /\ superblock'.free_blocks = mark.free_blocks]_vars

\* Entry j of the first block of a directory inode, as <<inode_id, name>>.
EntryAt(inode, j) ==
    <<device.blk[inode.direct[1]][j * DIR_ENTRY_SIZE],
      device.blk[inode.direct[1]][j * DIR_ENTRY_SIZE + 1]>>

\* C11: format of a valid geometry succeeds, with no assertion of the code
\* failing, and leaves inode 0 allocated as the sentinel, inode 1 the root
\* Directory with links_cnt 2, blocks 1, size 2*DIR_ENTRY_SIZE and entries
\* '.' and '..' naming inode 1, and free_inodes = num_inodes - 2.
C11_FormatResult ==
    ret.op = "format"
    => /\ ret.err = "Ok" /\ ~ret.af
       /\ 0 \in device.ibm /\ device.itab[0].ftype = "Special"
       /\ 1 \in device.ibm /\ device.itab[1].ftype = "Directory"
       /\ device.itab[1].links_cnt = 2
       /\ device.itab[1].blocks = 1
       /\ device.itab[1].size = 2 * DIR_ENTRY_SIZE
       /\ EntryAt(device.itab[1], 0) = <<1, DOT_NAME>>
       /\ EntryAt(device.itab[1], 1) = <<1, DOTDOT_NAME>>
       /\ superblock.free_inodes = superblock.num_inodes - 2

\* The inode id a directory's entry for name holds, read from the blocks of
\* the directory; 0 when there is no such entry.
ChildOf(dir_id, name) ==
    LET ids == {device.blk[bj[1]][bj[2] * DIR_ENTRY_SIZE] :
                  bj \in {c \in DirectIds(device.itab[dir_id]) \X (0..(NUM_ENTRY_PER_BLOCK - 1)) :
                            /\ device.blk[c[1]][c[2] * DIR_ENTRY_SIZE] # 0
                            /\ device.blk[c[1]][c[2] * DIR_ENTRY_SIZE + 1] = name}}
    IN IF ids = {} THEN 0 ELSE CHOOSE i \in ids : TRUE

RECURSIVE RawWalk(_, _)
\* The inode reached from directory id by following entries only (no
\* symlink is expanded); 0 when a component is missing.
RawWalk(id, comps) ==
    IF comps = << >> THEN id
    ELSE IF id \notin device.ibm \/ device.itab[id].ftype # "Directory" THEN 0
    ELSE RawWalk(ChildOf(id, Head(comps)), Tail(comps))

SymlinkAt(p) ==
    /\ RawWalk(ROOT_INODE_ID, p.comps) \in device.ibm
    /\ device.itab[RawWalk(ROOT_INODE_ID, p.comps)].ftype = "Symlink"

TargetOf(p) == device.itab[RawWalk(ROOT_INODE_ID, p.comps)].path

\* The symlink at p names q: by q's absolute path, or by q's name relative
\* to the directory that holds p.
Points(p, q) ==
    /\ SymlinkAt(p)
    /\ \/ TargetOf(p) = q
       \/ ~TargetOf(p).abs /\ q.comps = Front(p.comps) \o TargetOf(p).comps

IsPrefix(s, t) == Len(s) <= Len(t) /\ SubSeq(t, 1, Len(s)) = s

\* The passes canonicalize's loop can make: each pass takes a component off
\* the queue or expands a symlink, and an expansion adds at most
\* MAX_PATH_LEN components.
MaxPasses(path) == Len(path.comps) + SYMLOOP_MAX * MAX_PATH_LEN + 1

\* C12: path resolution terminates (canonicalize's loop makes at most
\* MaxPasses passes for every path, in every state), and lookup of a path
\* that goes through two symlinks naming each other fails with PathTooLong.
C12_SymlinkCycle ==
    /\ \A p \in AllPaths, keep \in BOOLEAN :
          canonicalize(World(FALSE), p, keep).steps <= MaxPasses(p)
    /\ \A p \in AllPaths, q \in AllPaths :
          (/\ ret.op = "lookup" /\ p # q
           /\ Points(p, q) /\ Points(q, p)
           /\ IsPrefix(p.comps, ret.path.comps))
          => ret.err = "PathTooLong"

C12_Witness ==
    /\ ret.op = "lookup" /\ ret.err = "PathTooLong"
    /\ \E p \in AllPaths, q \in AllPaths :
          /\ p # q /\ Points(p, q) /\ Points(q, p)
          /\ IsPrefix(p.comps, ret.path.comps)
    /\ \E p \in AllPaths : canonicalize(World(FALSE), p, FALSE).steps > SYMLOOP_MAX

\* The last call went through a symlink at ret.path whose stored target is
\* an absolute path that resolves.
ThroughLink ==
    /\ SymlinkAt(ret.path)
    /\ TargetOf(ret.path).abs
    /\ Lk(TargetOf(ret.path)).err = "Ok"

ReadTarget(oc) ==
    fs_fread([dev |-> device, sb |-> superblock, af |-> FALSE, oc |-> oc, log |-> << >>],
             TargetOf(ret.path), ret.off, Len(ret.buf))

\* What C13 promises of a call through a symlink: lookup returns what lookup
\* of the target returns; fwrite to a Regular target returns len(buf) and
\* fread through the target path returns the bytes written.
FollowsLink ==
    /\ ret.op = "lookup"
       => /\ ret.err = "Ok"
          /\ ret.v = Lk(TargetOf(ret.path)).v
          /\ ret.data = Lk(TargetOf(ret.path)).data
    /\ (ret.op = "fwrite" /\ Lk(TargetOf(ret.path)).data = <<"Regular">>)
       => /\ ret.err = "Ok" /\ ret.v = Len(ret.buf)
          /\ \A oc \in BOOLEAN :
                /\ ReadTarget(oc).err = "Ok"
                /\ ReadTarget(oc).data = ret.buf

RemovesLink ==
    /\ ret'.op = "remove" /\ ret'.ftype = "Symlink"
    /\ SymlinkAt(ret'.path)
    /\ TargetOf(ret'.path).abs
    /\ Lk(TargetOf(ret'.path)).err = "Ok"

\* The call removed the link and left its target (inode t) alone.
LinkOnlyRemoved(t) ==
    /\ ret'.err = "Ok"
    /\ LkIn(device', superblock', TargetOf(ret'.path)).err = "Ok"
    /\ LkIn(device', superblock', TargetOf(ret'.path)).v = t
    /\ device'.itab[t] = device.itab[t]
    /\ \A b \in BlocksOf(device.itab[t]) : device'.blk[b] = device.blk[b]
    /\ LkIn(device', superblock', ret'.path).err # "Ok"
    /\ superblock'.free_inodes = superblock.free_inodes + 1
    /\ superblock'.free_blocks = superblock.free_blocks
    /\ device'.dbm = device.dbm

\* C14: remove(link_path, Symlink) of a symlink whose target resolves
\* succeeds and removes the link object itself: the target path resolves to
\* the same inode, the target's inode record (links_cnt included) and data
\* are unchanged, free_inodes rises by exactly 1, and free_blocks and the
\* data bitmap are unchanged.
C14_RemoveSymlink ==
    [][RemovesLink => LinkOnlyRemoved(Lk(TargetOf(ret'.path)).v)]_vars

\* C14 amended: the same, for a target other than the directory that holds
\* the link (that directory loses the link's entry).
C14_RemoveSymlinkElsewhere ==
    [][(/\ RemovesLink
        /\ Lk(TargetOf(ret'.path)).v # RawWalk(ROOT_INODE_ID, Front(ret'.path.comps)))
       => LinkOnlyRemoved(Lk(TargetOf(ret'.path)).v)]_vars

C14_Witness ==
    /\ ret.op = "remove" /\ ret.ftype = "Symlink" /\ ret.err = "Ok"
    /\ Lk(ret.path).err # "Ok"
    /\ \E q \in Paths2 :
          /\ Lk(q).err = "Ok" /\ Lk(q).data = <<"Regular">>
          /\ device.itab[Lk(q).v].size > 0
          /\ device.itab[Lk(q).v].links_cnt = 1

\* The bytes read_block(id) is to return: those of the last write_block(id)
\* that returned Ok, or the device's when there was none.
Expected(id) ==
    IF written[id] # NeverWritten THEN [err |-> "Ok", buf |-> written[id]]
    ELSE ram_read_block(cached.device, id)

\* The written bytes of block id are not lost: they are in the cache, dirty
\* or equal to the device's, or, when the block is not cached, on the device.
Kept(c, w, id) ==
    IF Position(c.cache.cache, id) # 0
    THEN /\ c.cache.cache[Position(c.cache.cache, id)].buf = w[id]
         /\ \/ c.cache.cache[Position(c.cache.cache, id)].dirty
            \/ ram_read_block(c.device, id) = [err |-> "Ok", buf |-> w[id]]
    ELSE ram_read_block(c.device, id) = [err |-> "Ok", buf |-> w[id]]

\* C15: after any sequence of read_block, write_block and flush on the shim,
\* for an LRU cache of any capacity >= 1: read_block(id) returns the bytes of
\* the most recent write_block(id), or the device's bytes if id was never
\* written; after flush the device holds the most recently written bytes of
\* every block; no written block is ever dropped.
C15_CacheCoherent ==
    [][/\ cret'.op = "read_block"
          => /\ cret'.err = Expected(cret'.id).err
             /\ cret'.err = "Ok" => cret'.data = Expected(cret'.id).buf
       /\ (cret'.op = "flush" /\ cret'.err = "Ok")
          => \A id \in BlockIds :
                written'[id] # NeverWritten
                => ram_read_block(cached'.device, id) = [err |-> "Ok", buf |-> written'[id]]
       /\ \A id \in BlockIds :
             written'[id] # NeverWritten => Kept(cached', written', id)]_vars

\* The least recently used buffer, the one write_cache names in CacheEvict.
Victim == cached.cache.cache[Len(cached.cache.cache)]

\* C16: write_block through the shim never writes the target block to the
\* device: a device block changes only in a flush, to the bytes of its dirty
\* buffer, or in the evict of a read_block or write_block of another block
\* that found the cache full, to the bytes of the dirty victim.
C16_WriteBack ==
    [][\A b \in 0..(CacheBlocks - 1) :
         cached'.device[b + 1] # cached.device[b + 1]
         => \/ /\ cret'.op = "flush"
               /\ \E i \in 1..Len(cached.cache.cache) :
                     /\ cached.cache.cache[i].block_id = b
                     /\ cached.cache.cache[i].dirty
                     /\ cached.cache.cache[i].buf = cached'.device[b + 1]
            \/ /\ cret'.op \in {"read_block", "write_block"}
               /\ b # cret'.id
               /\ Position(cached.cache.cache, cret'.id) = 0
               /\ Len(cached.cache.cache) >= cached.cache.capacity
               /\ Victim.block_id = b /\ Victim.dirty
               /\ Victim.buf = cached'.device[b + 1]]_vars

\* A write_block returned Ok after evicting another written block to the
\* device, and the device does not hold the bytes just written.
C16_Witness ==
    /\ cret.op = "write_block" /\ cret.err = "Ok" /\ cret.id < CacheBlocks
    /\ cached.device[cret.id + 1] # cret.buf
    /\ \E b \in 0..(CacheBlocks - 1) :
          /\ b # cret.id /\ written[b] # NeverWritten
          /\ Position(cached.cache.cache, b) = 0
          /\ cached.device[b + 1] = written[b]

\* C17: read_block, write_block and flush of the shim never return CacheMiss
\* or CacheEvict, for an LRU cache of any capacity >= 1 and any sequence of
\* calls.
C17_NoCacheSignal == cret.err \notin {"CacheMiss", "CacheEvict"}

\* A read_block returned Ok from a full cache in which neither a block
\* written before nor the next block to insert is held: read_cache signals
\* CacheMiss and write_cache CacheEvict in this state.
C17_Witness ==
    /\ cret.op = "read_block" /\ cret.err = "Ok"
    /\ Len(cached.cache.cache) = cached.cache.capacity
    /\ \E b \in 0..(CacheBlocks - 1) :
          /\ written[b] # NeverWritten
          /\ read_cache(cached.cache, b).err = "CacheMiss"
          /\ write_cache(cached.cache, b, 0).err = "CacheEvict"

\* Mode values with the read bit (0b001) and with the write bit (0b010).
ReadModes == {"Read", "RW", "RE", "RWE"}
WriteModes == {"Write", "RW", "RWE"}

ModeOf(path) == device.itab[Lk(path).v].mode

\* C18: fread on a Regular file succeeds when the inode's mode contains the
\* read capability (Read, RW, RE, RWE) and returns PermissionDenied exactly
\* when it does not; fwrite likewise for the write capability (Write, RW,
\* RWE).
C18_ModeChecks ==
    [][(/\ ret'.op \in {"fread", "fwrite"}
        /\ Lk(ret'.path).err = "Ok" /\ Lk(ret'.path).data = <<"Regular">>)
       => /\ ret'.op = "fread"
             => /\ ModeOf(ret'.path) \in ReadModes => ret'.err = "Ok"
                /\ ret'.err = "PermissionDenied" <=> ModeOf(ret'.path) \notin ReadModes
          /\ ret'.op = "fwrite"
             => /\ ModeOf(ret'.path) \in WriteModes => ret'.err = "Ok"
                /\ ret'.err = "PermissionDenied" <=> ModeOf(ret'.path) \notin WriteModes]_vars

\* The inode of the Regular file the call's path names, before the call.
FileOf(path) == device.itab[Lk(path).v]

\* C19: a write of less than one block at a block-aligned offset whose block
\* is not allocated takes exactly 1 block when the block index is in the
\* direct range, and leaves every other direct pointer as it was (absent
\* pointers below the written block stay absent: the hole is not filled); a
\* write whose block index first reaches the indirect range (no indirect
\* block yet) takes exactly 2 blocks and changes no direct pointer.
C19_SparseWrite ==
    [][(/\ ret'.op = "fwrite"
        /\ ret'.off % BLOCK_SIZE = 0
        /\ Len(ret'.buf) >= 1 /\ Len(ret'.buf) < BLOCK_SIZE
        /\ Lk(ret'.path).err = "Ok" /\ Lk(ret'.path).data = <<"Regular">>
        /\ superblock.free_blocks >= 2)
       => /\ (/\ ret'.off \div BLOCK_SIZE < NUM_DIRECT_PTRS
              /\ FileOf(ret'.path).direct[ret'.off \div BLOCK_SIZE + 1] = 0)
             => /\ ret'.err = "Ok"
                /\ superblock'.free_blocks = superblock.free_blocks - 1
                /\ device'.itab[Lk(ret'.path).v].direct[ret'.off \div BLOCK_SIZE + 1] # 0
                /\ \A j \in 1..NUM_DIRECT_PTRS :
                      j # ret'.off \div BLOCK_SIZE + 1
                      => device'.itab[Lk(ret'.path).v].direct[j] = FileOf(ret'.path).direct[j]
                /\ device'.itab[Lk(ret'.path).v].indirect = FileOf(ret'.path).indirect
          /\ (/\ ret'.off \div BLOCK_SIZE >= NUM_DIRECT_PTRS
              /\ ret'.off \div BLOCK_SIZE < NUM_DIRECT_PTRS + PTRS_PER_BLOCK
              /\ FileOf(ret'.path).indirect = 0)
             => /\ ret'.err = "Ok"
                /\ superblock'.free_blocks = superblock.free_blocks - 2
                /\ device'.itab[Lk(ret'.path).v].indirect # 0
                /\ device'.itab[Lk(ret'.path).v].direct = FileOf(ret'.path).direct]_vars

\* A file whose block 0 is allocated, block 1 a hole, and whose last write
\* reached the indirect range.
C19_Witness ==
    /\ ret.op = "fwrite" /\ ret.err = "Ok" /\ ret.off = NUM_DIRECT_PTRS * BLOCK_SIZE
    /\ Lk(ret.path).err = "Ok"
    /\ FileOf(ret.path).direct[1] # 0
    /\ FileOf(ret.path).direct[2] = 0
    /\ FileOf(ret.path).indirect # 0

\* C20: fread on a readable Regular file at an offset at or beyond the
\* file's size returns no data (0 bytes or an error, never a positive byte
\* count), leaves the file's inode (its size included) as it was and
\* allocates no block.
C20_ReadPastEnd ==
    [][(/\ ret'.op = "fread"
        /\ Lk(ret'.path).err = "Ok" /\ Lk(ret'.path).data = <<"Regular">>
        /\ ret'.off >= FileOf(ret'.path).size)
       => /\ ret'.v = 0 /\ ret'.data = << >>
          /\ device'.itab[Lk(ret'.path).v] = FileOf(ret'.path)
          /\ superblock'.free_blocks = superblock.free_blocks
          /\ device'.dbm = device.dbm]_vars

\* The instance as a world, for applying the directory functions to a state.
Here == World(FALSE)

\* The allocated directory inodes.
Directories == {i \in AllocatedInodes : device.itab[i].ftype = "Directory"}

\* C21: in every state reached after format by creat, link, symlink and
\* remove, every directory inode has size % DIR_ENTRY_SIZE == 0 and its '.'
\* and '..' entries exist: dir_lookup of '.' returns the directory itself
\* and dir_lookup of '..' succeeds (so neither was overwritten or removed).
C21_DotEntries ==
    \A i \in Directories :
       /\ device.itab[i].size % DIR_ENTRY_SIZE = 0
       /\ dir_lookup(Here, device.itab[i], DOT_NAME) = [err |-> "Ok", v |-> i]
       /\ dir_lookup(Here, device.itab[i], DOTDOT_NAME).err = "Ok"

\* The names a caller can give, and every name a directory can hold.
UserNames == {NameA, NameB}
AllNames == {DOT_NAME, DOTDOT_NAME, NameA, NameB}

\* dir_add_entry(d, {id, n}), when it succeeds, is followed by a dir_lookup
\* of n that returns id.
AddThenLookup(d, n, id) ==
    LET After(r) == r.err = "Ok" => dir_lookup(r.w, r.ino, n) = [err |-> "Ok", v |-> id]
    IN After(dir_add_entry(Here, d, DirEntryNew(id, n)))

\* dir_rm_entry(d, n), when it succeeds, is followed by a dir_lookup of n
\* that returns NotFound, and every other name resolves as before.
RmThenLookup(d, n) ==
    LET After(r) == r.err = "Ok" =>
           /\ dir_lookup(r.w, r.ino, n).err = "NotFound"
           /\ \A m \in AllNames \ {n} : dir_lookup(r.w, r.ino, m) = dir_lookup(Here, d, m)
    IN After(dir_rm_entry(Here, d, n))

\* C22: for every directory of every reachable state (with or without
\* tombstones) and every valid name: if the name is absent, a successful
\* dir_add_entry of {id, name} makes dir_lookup return id; a successful
\* dir_rm_entry of the name makes dir_lookup return NotFound while every
\* other name still resolves to its id.
C22_AddRmLookup ==
    \A i \in Directories, n \in UserNames :
       /\ dir_lookup(Here, device.itab[i], n).err # "Ok"
            => \A id \in 1..(NumInodes - 1) : AddThenLookup(device.itab[i], n, id)
       /\ RmThenLookup(device.itab[i], n)

\* The NUM_ENTRY_PER_BLOCK slots of a directory block, in order.
Slots(block_id) ==
    [j \in 1..NUM_ENTRY_PER_BLOCK |->
       [inode_id |-> device.blk[block_id][(j - 1) * DIR_ENTRY_SIZE],
        name |-> device.blk[block_id][(j - 1) * DIR_ENTRY_SIZE + 1]]]

NonEmptyEntry(e) == e.inode_id # 0 \/ e.name # 0

RECURSIVE EntriesFrom(_, _)
\* The non-empty entries of the blocks direct pointers k.. of d name.
EntriesFrom(d, k) ==
    IF k > NUM_DIRECT_PTRS THEN << >>
    ELSE (IF d.direct[k] = 0 THEN << >> ELSE SelectSeq(Slots(d.direct[k]), NonEmptyEntry))
         \o EntriesFrom(d, k + 1)

\* The non-empty entries of directory d in stored order.
StoredEntries(d) == EntriesFrom(d, 1)

\* C23: a successful read_dir(path) returns exactly the non-empty entries of
\* the directory in stored order: every name for which dir_lookup succeeds
\* is in the result, and no name that is absent (removed) is.
C23_ReadDir ==
    (ret.op = "read_dir" /\ ret.err = "Ok")
    => /\ ret.data = StoredEntries(device.itab[Lk(ret.path).v])
       /\ \A n \in AllNames :
             dir_lookup(Here, device.itab[Lk(ret.path).v], n).err = "Ok"
             <=> \E k \in DOMAIN ret.data : ret.data[k].name = n

\* Number of clear bits among the first n bits of a bitmap.
FreeBits(bits, n) == Cardinality({k \in 0..(n - 1) : k \notin bits})

\* C24: at the end of every facade operation the superblock stored in block
\* 0 equals the in-memory superblock, free_blocks and free_inodes equal the
\* number of clear bits in the valid range of the data and inode bitmaps,
\* and a mount of the device as it is (no unmount before) succeeds with the
\* same superblock over the same device.
C24_SuperblockPersisted ==
    /\ device.sb = SuperBlockWords(superblock)
    /\ superblock.free_blocks
         = FreeBits(device.dbm, superblock.num_blocks - superblock.data_start)
    /\ superblock.free_inodes = FreeBits(device.ibm, superblock.num_inodes)
    /\ mount(Here).err = "Ok"
    /\ mount(Here).w = Here

\* ceil(a / b) for naturals.
CeilDiv(a, b) == (a \div b) + (IF a % b = 0 THEN 0 ELSE 1)

\* The arguments and the result of the last SuperBlock::new that succeeded.
NewOk == ret.op = "SuperBlock::new" /\ ret.err = "Ok"

\* C25: the bitmap regions are sized as the layout states: the data bitmap
\* has ceil(num_blocks / 8 / BLOCK_SIZE) blocks, the inode bitmap
\* ceil(num_inodes / 8 / BLOCK_SIZE) blocks, and the inode table
\* ceil(num_inodes * INODE_SIZE / BLOCK_SIZE) blocks, which is
\* ceil(num_inodes / (BLOCK_SIZE / INODE_SIZE)) as INODE_SIZE divides
\* BLOCK_SIZE.
C25_RegionSizes ==
    NewOk => /\ ret.data[1].data_bitmap_blocks = CeilDiv(ret.buf[1], 8 * BLOCK_SIZE)
             /\ ret.data[1].inode_bitmap_blocks = CeilDiv(ret.buf[2], 8 * BLOCK_SIZE)
             /\ ret.data[1].inode_table_blocks
                  = CeilDiv(ret.buf[2], BLOCK_SIZE \div INODE_SIZE)

\* Where the data region starts for a geometry, by the sizes SuperBlock::new
\* gives the regions.
DataStartOf(num_blocks, num_inodes) ==
    1 + CeilDiv(num_blocks, 8) + CeilDiv(num_inodes, 8)
      + CeilDiv(num_inodes, BLOCK_SIZE \div INODE_SIZE)

C27_MountValidates ==
    ret.op = "mount"
    => /\ (device.sb[1] # MAGIC \/ device.sb[3] # BLOCK_SIZE \/ ret.ftype # "")
            => ret.err # "Ok"
       /\ (device.sb[1] = MAGIC /\ device.sb[3] = BLOCK_SIZE /\ ret.ftype = "")
            => ret.err = "Ok" /\ superblock = SuperBlockOfWords(device.sb)

\* An entry other than '.' and '..' that names an allocated directory.
IsSubdir(e) == e.name \notin {DOT_NAME, DOTDOT_NAME} /\ e.inode_id \in Directories

\* C28: in every state reached after format by creat and remove of
\* directories, the links_cnt of each directory, the root included, equals 2
\* plus the number of its child subdirectories.
C28_DirLinks ==
    \A i \in Directories :
       device.itab[i].links_cnt = 2 + Len(SelectSeq(StoredEntries(device.itab[i]), IsSubdir))

\* C29: '..' resolves to the parent of the current directory and later
\* components are looked up there: when following the stored entries from
\* the root, the '.' and '..' entries of each directory included, reaches an
\* inode, lookup of the path returns that inode; a path made only of '.'
\* and '..' resolves to the root inode.
C29_DotDot ==
    (ret.op = "lookup" /\ ret.path \in DotDotPaths
       /\ RawWalk(ROOT_INODE_ID, ret.path.comps) # 0)
    => ret.err = "Ok" /\ ret.v = RawWalk(ROOT_INODE_ID, ret.path.comps)

\* The paths that name the inode path names, after the call.
NamesOf(path) ==
    {q \in AllPaths : /\ LkIn(device', superblock', q).err = "Ok"
                      /\ LkIn(device', superblock', q).v = LkIn(device', superblock', path).v}

\* C30: a successful link(target, link_path) returns the target's inode id,
\* leaves free_inodes, the target's size, block pointers and data blocks as
\* they were and raises the target's links_cnt by exactly 1; and a write
\* through any name of a file is read back through each of its names.
C30_HardLink ==
    [][/\ (ret'.op = "link" /\ ret'.err = "Ok")
          => /\ ret'.v = Lk(ret'.target).v
             /\ superblock'.free_inodes = superblock.free_inodes
             /\ device'.itab[ret'.v] = [device.itab[ret'.v] EXCEPT !.links_cnt = @ + 1]
             /\ \A b \in BlocksOf(device.itab[ret'.v]) : device'.blk[b] = device.blk[b]
             /\ LkIn(device', superblock', ret'.path).v = ret'.v
       /\ (ret'.op = "fwrite" /\ ret'.err = "Ok")
          => \A q \in NamesOf(ret'.path) :
                ReadIn(device', superblock', q, Len(ret'.buf)) = ret'.buf]_vars

\* A write through the name a link made, with the target's own name still
\* there.
C30_Witness ==
    /\ ret.op = "fwrite" /\ ret.err = "Ok" /\ ret.path = PathB
    /\ Lk(PathA).err = "Ok" /\ Lk(PathA).v = Lk(PathB).v
    /\ device.itab[Lk(PathB).v].links_cnt = 2

\* The non-empty entries held by the allocated directories.
LiveEntries ==
    UNION {{StoredEntries(device.itab[i])[k] : k \in DOMAIN StoredEntries(device.itab[i])} :
              i \in Directories}

\* C31: in every state reached after format by creat, link, symlink and
\* remove, every non-empty directory entry names an inode whose inode-bitmap
\* bit is set and whose links_cnt is at least 1 (so no remove frees an inode
\* that a remaining entry still names).
C31_EntriesNameLiveInodes ==
    \A e \in LiveEntries :
       /\ e.inode_id \in AllocatedInodes
       /\ device.itab[e.inode_id].links_cnt >= 1

\* The number of directory entries whose inode_id is id.
EntryCount(id) ==
    Cardinality({ik \in Directories \X (1..(NUM_DIRECT_PTRS * NUM_ENTRY_PER_BLOCK)) :
                    /\ ik[2] \in DOMAIN StoredEntries(device.itab[ik[1]])
                    /\ StoredEntries(device.itab[ik[1]])[ik[2]].inode_id = id})

\* C32: in every state reached after format by creat, link, symlink and
\* remove, the links_cnt of every allocated Regular and Symlink inode equals
\* the number of directory entries that name it, and no remove has
\* decremented a links_cnt of 0 (neither a panic of the subtraction nor a
\* wrapped count).
C32_LinkCounts ==
    /\ \A i \in AllocatedInodes :
          device.itab[i].ftype \in {"Regular", "Symlink"}
          => device.itab[i].links_cnt = EntryCount(i)
    /\ ret.op = "remove" => ret.err # "Panic"
    /\ \A i \in AllocatedInodes : device.itab[i].links_cnt # U32_MAX

\* The number of data blocks an inode references: present direct pointers
\* plus non-zero slots of the indirect block (the indirect block itself is
\* not counted).
DataBlockRefs(inode) ==
    Cardinality({k \in 1..NUM_DIRECT_PTRS : inode.direct[k] # 0})
    + (IF inode.indirect = 0 THEN 0
       ELSE Cardinality({k \in 0..(PTRS_PER_BLOCK - 1) :
                           PtrAt(device.blk[inode.indirect], k) # 0}))

\* C33: after format and any sequence of creat and fwrite calls, the blocks
\* field of every allocated Regular and Directory inode equals the number
\* of data blocks the inode references.
C33_BlocksCount ==
    \A i \in AllocatedInodes :
       device.itab[i].ftype \in {"Regular", "Directory"}
       => device.itab[i].blocks = DataBlockRefs(device.itab[i])

\* In a call's list of writes, inode id's record is written, and for the
\* last time after every write of a data block (file data, directory
\* entries, indirect pointers, zero fill) and of a bitmap block.
InodeWrittenLast(log, id) ==
    \E j \in DOMAIN log :
       /\ log[j] = [kind |-> "inode", id |-> id]
       /\ \A k \in DOMAIN log : log[k].kind \in {"data", "bitmap"} => k < j

\* The block-aligned offsets bmap is called with.
BlockOffsets == {k * BLOCK_SIZE : k \in 0..(NUM_DIRECT_PTRS + PTRS_PER_BLOCK - 1)}

\* bmap(create = true) that allocates writes the inode after the blocks.
BmapOrder(inode, file_offset) ==
    LET After(r) == (r.err = "Ok" /\ r.w.log # << >>) => InodeWrittenLast(r.w.log, inode.id)
    IN After(bmap(Here, inode, file_offset, TRUE))

\* dir_add_entry writes the parent's inode after the entry's block.
AddOrder(d, n) ==
    LET After(r) == r.err = "Ok" => InodeWrittenLast(r.w.log, d.id)
    IN After(dir_add_entry(Here, d, DirEntryNew(d.id, n)))

\* dir_rm_entry writes the parent's inode after the cleared slot's block.
RmOrder(d, n) ==
    LET After(r) == r.err = "Ok" => InodeWrittenLast(r.w.log, d.id)
    IN After(dir_rm_entry(Here, d, n))

\* C34: in every reachable state, for every file and block-aligned offset,
\* every directory and name: a bmap that allocates writes the inode record
\* after the bitmap, data and indirect blocks it wrote; dir_add_entry writes
\* the parent inode after the entry's block; dir_rm_entry writes the parent
\* inode after the cleared slot's block.
C34_InodeWrittenAfterBlocks ==
    /\ \A i \in AllocatedInodes, o \in BlockOffsets :
          device.itab[i].ftype = "Regular" /\ device.itab[i].id = i
          => BmapOrder(device.itab[i], o)
    /\ \A i \in Directories, n \in UserNames :
          AddOrder(device.itab[i], n) /\ RmOrder(device.itab[i], n)

\* The block-aligned offsets of every block index bmap can map, and of the
\* first two it cannot.
MapOffsets == {k * BLOCK_SIZE : k \in 0..(NUM_DIRECT_PTRS + PTRS_PER_BLOCK + 1)}

\* What bmap(inode, file_offset, create) returns and leaves on the device,
\* by the range of block index file_offset / BLOCK_SIZE.
BmapMaps(inode, file_offset, create) ==
    LET i == file_offset \div BLOCK_SIZE
        After(r) ==
          IF i < NUM_DIRECT_PTRS
          THEN r.err = "Ok"
               => /\ r.v # 0
                  /\ r.v = r.w.dev.itab[inode.id].direct[i + 1]
                  /\ inode.direct[i + 1] # 0 => r.v = inode.direct[i + 1]
          ELSE IF i < NUM_DIRECT_PTRS + PTRS_PER_BLOCK
          THEN r.err = "Ok"
               => /\ r.v # 0
                  /\ r.w.dev.itab[inode.id].indirect # 0
                  /\ r.v = PtrAt(r.w.dev.blk[r.w.dev.itab[inode.id].indirect],
                                 i - NUM_DIRECT_PTRS)
                  /\ r.w.dev.itab[inode.id].direct = inode.direct
                  /\ (inode.indirect # 0 /\ PtrAt(device.blk[inode.indirect], i - NUM_DIRECT_PTRS) # 0)
                     => r.v = PtrAt(device.blk[inode.indirect], i - NUM_DIRECT_PTRS)
          ELSE /\ r.err = "FileTooLarge"
               /\ r.w.dev = device
               /\ r.w.sb = superblock
    IN After(bmap(Here, inode, file_offset, create))

\* C35: in every reachable state, for every file, bmap maps block index
\* i = file_offset / BLOCK_SIZE to direct slot i for i < NUM_DIRECT_PTRS and
\* to slot i - NUM_DIRECT_PTRS of the indirect block for the next
\* PTRS_PER_BLOCK indexes; for a larger index it fails with FileTooLarge,
\* allocates no block and leaves the device (the persisted inode included)
\* and the superblock as they were.
C35_BmapRanges ==
    \A i \in AllocatedInodes, o \in MapOffsets, c \in BOOLEAN :
       device.itab[i].ftype = "Regular" /\ device.itab[i].id = i
       => BmapMaps(device.itab[i], o, c)

\* A file that has a direct block and a block in the indirect range, after
\* the write that allocated the indirect slot.
C35_Witness ==
    /\ ret.op = "fwrite" /\ ret.err = "Ok" /\ ret.off = NUM_DIRECT_PTRS * BLOCK_SIZE
    /\ Lk(PathA).err = "Ok"
    /\ FileOf(PathA).direct[1] # 0
    /\ bmap(Here, FileOf(PathA), ret.off, FALSE).err = "Ok"
    /\ bmap(Here, FileOf(PathA), (NUM_DIRECT_PTRS + PTRS_PER_BLOCK) * BLOCK_SIZE, TRUE).err
          = "FileTooLarge"

\* Bits 0..total_items-1 of a bitmap all equal value.
AllBits(bits, total_items, value) == \A k \in 0..(total_items - 1) : (k \in bits) = value

\* set_first_fit_bit on a bitmap whose items all have the target value
\* fails with NotFound and leaves the bitmap as it was; a successful call
\* returns an index below total_items.
FirstFitBounded(bits, bitmap_blocks, total_items, value) ==
    LET After(r) ==
          /\ AllBits(bits, total_items, value) => r.err = "NotFound" /\ r.bits = bits
          /\ r.err = "Ok" => r.id < total_items
    IN After(set_first_fit_bit(bits, bitmap_blocks, total_items, value))

\* An allocation that fails leaves the device and the free counts alone.
AllocFails(r) ==
    /\ r.err # "Ok"
    /\ r.w.dev = device
    /\ r.w.sb = superblock

\* C36: in every reachable state, set_first_fit on the data bitmap and on
\* the inode bitmap, for either target value: when bits 0..total_items-1
\* all equal the target value it fails with NotFound and writes no bitmap
\* block, and it never returns an index >= total_items; alloc_data_block
\* and alloc_inode_id on a full bitmap return an error and leave
\* free_blocks and free_inodes (and the device) unchanged.
C36_FullBitmap ==
    /\ \A value \in BOOLEAN :
          /\ FirstFitBounded(device.dbm, superblock.data_bitmap_blocks,
                             superblock.num_blocks - superblock.data_start, value)
          /\ FirstFitBounded(device.ibm, superblock.inode_bitmap_blocks,
                             superblock.num_inodes, value)
    /\ AllBits(device.dbm, superblock.num_blocks - superblock.data_start, TRUE)
          => AllocFails(alloc_data_block(Here))
    /\ AllBits(device.ibm, superblock.num_inodes, TRUE)
          => AllocFails(alloc_inode_id(Here))

\* The block alloc_data_block returns holds zero bytes only.
AllocZeroed ==
    LET After(r) == r.err = "Ok" => r.w.dev.blk[r.v] = ZeroBlock
    IN After(alloc_data_block(Here))

\* The bytes of a file after a write of buf at off, given the size and the
\* bytes before it: the written bytes, the bytes there were, zero elsewhere.
WriteLeavesZeros(old, new, off, buf) ==
    \A q \in 0..(Len(new) - 1) :
       new[q + 1] = IF q >= off /\ q < off + Len(buf) THEN buf[q - off + 1]
                    ELSE IF q < Len(old) THEN old[q + 1]
                    ELSE 0

\* The size of the file a path names.
SizeIn(dev, sb, path) == dev.itab[LkIn(dev, sb, path).v].size

\* C37: in every reachable state the block alloc_data_block returns reads as
\* all zero bytes, whatever the block held before; a file is empty after
\* its creat, and after every fwrite each byte of the file is a byte of the
\* buffer, the byte that was there before the call, or zero (so bytes that
\* were never written read as zero, whatever a removed file left in the
\* block).
C37_ZeroFill ==
    [][/\ AllocZeroed
       /\ (ret'.op = "creat" /\ ret'.err = "Ok" /\ ret'.ftype = "Regular")
          => SizeIn(device', superblock', ret'.path) = 0
       /\ (/\ ret'.op = "fwrite" /\ ret'.err = "Ok"
           /\ Len(ReadIn(device, superblock, ret'.path, SizeIn(device, superblock, ret'.path)))
                = SizeIn(device, superblock, ret'.path)
           /\ Len(ReadIn(device', superblock', ret'.path, SizeIn(device', superblock', ret'.path)))
                = SizeIn(device', superblock', ret'.path))
          => WriteLeavesZeros(
                ReadIn(device, superblock, ret'.path, SizeIn(device, superblock, ret'.path)),
                ReadIn(device', superblock', ret'.path, SizeIn(device', superblock', ret'.path)),
                ret'.off, ret'.buf)]_vars

\* The block the next allocation returns was used by a file that has been
\* removed and still holds its bytes on the device.
C37_Witness ==
    /\ ret.op = "remove" /\ ret.err = "Ok"
    /\ alloc_data_block(Here).err = "Ok"
    /\ device.blk[alloc_data_block(Here).v] # ZeroBlock
    /\ alloc_data_block(Here).w.dev.blk[alloc_data_block(Here).v] = ZeroBlock

\* A third file name, for a directory whose first block is full.
NameC == NameB + 1

\* The slots of the blocks a directory holds: <<k, j>> is slot j of the
\* block of direct pointer k.
EmptySlots(d) ==
    {kj \in (1..NUM_DIRECT_PTRS) \X (1..NUM_ENTRY_PER_BLOCK) :
        /\ d.direct[kj[1]] # 0
        /\ ~NonEmptyEntry(Slots(d.direct[kj[1]])[kj[2]])}

LowestSlot(S) ==
    CHOOSE kj \in S : \A x \in S : kj[1] < x[1] \/ (kj[1] = x[1] /\ kj[2] <= x[2])

\* Block b with the entry {id, n} written into slot j, the rest as it was.
WithEntry(b, j, id, n) ==
    [c \in DOMAIN device.blk[b] |->
       IF c = (j - 1) * DIR_ENTRY_SIZE THEN id
       ELSE IF c = (j - 1) * DIR_ENTRY_SIZE + 1 THEN n
       ELSE device.blk[b][c]]

\* dir_add_entry(d, {id, n}) for a name the directory does not hold: with an
\* empty slot it succeeds, writes the lowest one and allocates no block;
\* with every slot occupied and a free data block and a free direct
\* pointer it succeeds, allocates one block and writes its first slot.
AddPlaces(d, n) ==
    LET After(r) ==
          IF EmptySlots(d) # {}
          THEN /\ r.err = "Ok"
               /\ r.w.sb.free_blocks = superblock.free_blocks
               /\ r.ino.direct = d.direct
               /\ r.w.dev.blk[d.direct[LowestSlot(EmptySlots(d))[1]]]
                     = WithEntry(d.direct[LowestSlot(EmptySlots(d))[1]],
                                 LowestSlot(EmptySlots(d))[2], d.id, n)
          ELSE (superblock.free_blocks > 0 /\ \E k \in 1..NUM_DIRECT_PTRS : d.direct[k] = 0)
               => /\ r.err = "Ok"
                  /\ r.w.sb.free_blocks = superblock.free_blocks - 1
                  /\ dir_lookup(r.w, r.ino, n) = [err |-> "Ok", v |-> d.id]
    IN After(dir_add_entry(Here, d, DirEntryNew(d.id, n)))

\* C38: in every reachable state, for every directory (with or without
\* tombstones) and every name it does not hold, dir_add_entry writes the
\* entry into the lowest-index empty slot and allocates no block when there
\* is an empty slot, and allocates a new directory block and succeeds when
\* every slot of every existing block is occupied.
C38_AddEntryPlace ==
    \A i \in Directories, n \in {NameA, NameB, NameC} :
       (\A k \in DOMAIN StoredEntries(device.itab[i]) : StoredEntries(device.itab[i])[k].name # n)
       => AddPlaces(device.itab[i], n)

RECURSIVE Expansions(_, _)
\* The symlink expansions the resolution of p needs when each link's target
\* is the path of the next (fuel bounds the count on a cycle).
Expansions(p, fuel) ==
    IF fuel = 0 \/ ~SymlinkAt(p) THEN 0
    ELSE 1 + Expansions(TargetOf(p), fuel - 1)

RECURSIVE ChainEnd(_, _)
\* The path at the end of the chain of symlinks that starts at p.
ChainEnd(p, fuel) ==
    IF fuel = 0 \/ ~SymlinkAt(p) THEN p ELSE ChainEnd(TargetOf(p), fuel - 1)

\* C39: lookup of a path whose resolution needs at most SYMLOOP_MAX symlink
\* expansions (exactly SYMLOOP_MAX included) and whose chain ends at an
\* existing file or directory succeeds; PathTooLong is returned only when
\* more than SYMLOOP_MAX expansions are needed.
C39_ExactLimit ==
    ret.op = "lookup"
    => /\ (/\ Expansions(ret.path, SYMLOOP_MAX + 1) <= SYMLOOP_MAX
           /\ Lk(ChainEnd(ret.path, SYMLOOP_MAX + 1)).err = "Ok")
          => ret.err = "Ok"
       /\ ret.err = "PathTooLong" => Expansions(ret.path, SYMLOOP_MAX + 1) > SYMLOOP_MAX

\* bmap with create = false, the call through which dir_lookup and read_dir
\* reach the device, writes no block and changes nothing, for every inode
\* and block index.
BmapReadOnly ==
    \A i \in AllocatedInodes, o \in MapOffsets :
       device.itab[i].id = i => bmap(Here, device.itab[i], o, FALSE).w = Here

====
